---- MODULE Spec2Model ----
(***************************************************************************)
(* print_tabular_vbox of the tables crate (src/tables/src/lib.rs): the     *)
(* boxed-table renderer with spans (\ext), rules (\hline, \hline_bold),    *)
(* a greedy column-width solver and a junction smoother.                   *)
(*                                                                         *)
(* A string is a sequence of characters; a character is a TLA+ string.     *)
(* The box-drawing glyphs are named ("dash", "DASH", ...), upper case for  *)
(* the bold glyph.  Columns and rows are numbered from 1 here and from 0   *)
(* in the source: column c of the model is column c-1 of the source.       *)
(* debug_print is FALSE throughout (it only prints to stdout).             *)
(***************************************************************************)
EXTENDS Integers, Sequences, FiniteSets, TLC

\* ------------------------------------------------------------------------
\* Bounds of the model.

MaxRows == 2
MaxCols == 3
MaxSep == 1
MaxWidth == 4
ShapeRows == 3
ShapeCols == 3
MaxJust == 5
PlainRows == 2
PlainCols == 2
RuleCols == 2
MaxStr == 4
EscCols == 2
OneRows == 3
LogRows == 2
LogCols == 2
MixedRows == 2
MixedCols == 2
MaxNodes == 3
MaxEdges == 4

\* ------------------------------------------------------------------------
\* Characters.

ESC == "ESC"
WIDE == "WIDE"
NL == "NL"
SP == " "

EXT == <<"\\", "e", "x", "t">>
HLINE == <<"\\", "h", "l", "i", "n", "e">>
HLINE_BOLD == <<"\\", "h", "l", "i", "n", "e", "_", "b", "o", "l", "d">>

\* ------------------------------------------------------------------------
\* Generic helpers (Rust primitives).

Max(a, b) == IF a >= b THEN a ELSE b
Min(a, b) == IF a <= b THEN a ELSE b

\* n copies of c
Rep(c, n) == [q \in 1..n |-> c]

\* str::starts_with
starts_with(s, p) == Len(s) >= Len(p) /\ SubSeq(s, 1, Len(p)) = p

\* Vec::ends_with for a one-element suffix
ends_with(s, c) == Len(s) >= 1 /\ s[Len(s)] = c

RECURSIVE SumSeq(_)
SumSeq(s) == IF s = <<>> THEN 0 ELSE s[1] + SumSeq(Tail(s))

RECURSIVE Concat(_)
Concat(ss) == IF ss = <<>> THEN <<>> ELSE ss[1] \o Concat(Tail(ss))

\* ------------------------------------------------------------------------
\* visible_width (lines 110-129)

\* vw_from that lets an escape sequence end at the end of the string: what
\* an unterminated one suppressed is counted after all
RECURSIVE vw_from_reopened(_, _, _, _, _)
vw_from_reopened(s, p, n, held, escaped) ==
    IF p > Len(s) THEN n + (IF escaped THEN held ELSE 0)
    ELSE LET c == s[p] IN
         IF escaped /\ c # "m" THEN vw_from_reopened(s, p + 1, n, held + 1, TRUE)
         ELSE IF c = ESC THEN vw_from_reopened(s, p + 1, n, 0, TRUE)
         ELSE IF escaped /\ c = "m" THEN vw_from_reopened(s, p + 1, n, 0, FALSE)
         ELSE IF c = WIDE THEN vw_from_reopened(s, p + 1, n + 2, 0, FALSE)
         ELSE vw_from_reopened(s, p + 1, n + 1, 0, FALSE)

vw_from_lenient(s, p, n, escaped) == vw_from_reopened(s, p, n, 0, escaped)

RECURSIVE vw_from(_, _, _, _)
vw_from(s, p, n, escaped) ==
    IF p > Len(s) THEN n
    ELSE LET c == s[p] IN
         IF escaped /\ c # "m" THEN vw_from(s, p + 1, n, TRUE)
         ELSE IF c = ESC THEN vw_from(s, p + 1, n, TRUE)
         ELSE IF escaped /\ c = "m" THEN vw_from(s, p + 1, n, FALSE)
         ELSE IF c = WIDE THEN vw_from(s, p + 1, n + 2, FALSE)
         ELSE vw_from(s, p + 1, n + 1, FALSE)

\* visible_width without the test for the sentinels (line 111)
visible_width_of_any(s) == vw_from(s, 1, 0, FALSE)

visible_width(s) ==
    IF s = EXT \/ s = HLINE \/ s = HLINE_BOLD THEN 0 ELSE vw_from(s, 1, 0, FALSE)

\* ------------------------------------------------------------------------
\* package_characters_with_escapes_char (lines 36-56)

RECURSIVE pk_from(_, _, _, _, _)
pk_from(c, p, x, package, escaped) ==
    IF p > Len(c) THEN x
    ELSE LET b == c[p] IN
         IF escaped /\ b # "m" THEN pk_from(c, p + 1, x, Append(package, b), TRUE)
         ELSE IF b = ESC THEN pk_from(c, p + 1, x, Append(package, b), TRUE)
         ELSE IF escaped /\ b = "m" THEN pk_from(c, p + 1, x, Append(package, b), FALSE)
         ELSE pk_from(c, p + 1, Append(x, Append(package, b)), <<>>, FALSE)

package_characters_with_escapes_char(c) == pk_from(c, 1, <<>>, <<>>, FALSE)

\* package_characters_with_escapes (lines 14-34): the same loop over bytes
RECURSIVE pkb_from(_, _, _, _, _)
pkb_from(c, p, x, package, escaped) ==
    IF p > Len(c) THEN x
    ELSE LET b == c[p] IN
         IF escaped /\ b # "m" THEN pkb_from(c, p + 1, x, Append(package, b), TRUE)
         ELSE IF b = ESC THEN pkb_from(c, p + 1, x, Append(package, b), TRUE)
         ELSE IF escaped /\ b = "m" THEN pkb_from(c, p + 1, x, Append(package, b), FALSE)
         ELSE pkb_from(c, p + 1, Append(x, Append(package, b)), <<>>, FALSE)

package_characters_with_escapes(c) == pkb_from(c, 1, <<>>, <<>>, FALSE)

\* ------------------------------------------------------------------------
\* State.

VARIABLES
    rows,        \* argument rows: a sequence of rows, each a sequence of cells
    sep,         \* argument sep
    justify,     \* argument justify: a sequence of characters
    opt,         \* argument opt: [bold_box, bold_outer]
    log,         \* the output buffer (a sequence of characters, NL ends a line)
    log0,        \* the contents of log on entry (ghost)
    pc,          \* position in print_tabular_vbox
    err,         \* how the call ended when it failed
    ncols, vert, vert_bold, just,
    maxcol,
    lhs, rhs,
    xw, deficit, sum,
    rrr,
    ri,          \* the body row the renderer is at
    mat,
    arg,         \* the argument of a call of one of the other functions
    ret          \* what that call returned

vars == <<rows, sep, justify, opt, log, log0, pc, err, ncols, vert, vert_bold,
          just, maxcol, lhs, rhs, xw, deficit, sum, rrr, ri, mat, arg, ret>>

\* the variables of print_tabular_vbox
vbox == <<rows, sep, justify, opt, log, log0, err, ncols, vert, vert_bold,
          just, maxcol, lhs, rhs, xw, deficit, sum, rrr, ri, mat>>

inputs == <<rows, sep, justify, opt, log0>>

NoErr == [kind |-> "none", row |-> 0]

\* ------------------------------------------------------------------------
\* Box characters (lines 190-215)

dash == IF ~opt.bold_box THEN "dash" ELSE "DASH"
dash_bold == "DASH"
verty == IF ~opt.bold_box THEN "verty" ELSE "VERTY"
verty_bold == "VERTY"
topleft == IF ~opt.bold_box THEN "topleft" ELSE "TOPLEFT"
topleft_bold == "TOPLEFT"
topright == IF ~opt.bold_box THEN "topright" ELSE "TOPRIGHT"
topright_bold == "TOPRIGHT"
botleft == IF ~opt.bold_box THEN "botleft" ELSE "BOTLEFT"
botleft_bold == "BOTLEFT"
botright == IF ~opt.bold_box THEN "botright" ELSE "BOTRIGHT"
botright_bold == "BOTRIGHT"
tee == IF ~opt.bold_box THEN "tee" ELSE "TEE"
tee_bold == "TEE"
uptee == IF ~opt.bold_box THEN "uptee" ELSE "UPTEE"
uptee_bold == "UPTEE"
cross == IF ~opt.bold_box THEN "cross" ELSE "CROSS"
cross_bold_bold == "CROSS"
cross_bold1 == "cross_bold1"
cross_bold2 == "cross_bold2"
lefty == IF ~opt.bold_box THEN "lefty" ELSE "LEFTY"
lefty_bold_bold == "LEFTY"
lefty_bold1 == "lefty_bold1"
righty == IF ~opt.bold_box THEN "righty" ELSE "RIGHTY"
righty_bold_bold == "RIGHTY"
righty_bold1 == "righty_bold1"

\* ------------------------------------------------------------------------
\* Test that rows all have same length (lines 175-183).
\* The first row i >= 1 (source numbering) whose length differs from row 0,
\* or -1 when there is none.

\* FirstBadRow naming the row by its position counted from 1
RECURSIVE FirstBadRowFromOne(_, _)
FirstBadRowFromOne(rs, i) ==
    IF i > Len(rs) THEN -1
    ELSE IF Len(rs[i]) # Len(rs[1]) THEN i
    ELSE FirstBadRowFromOne(rs, i + 1)

RECURSIVE FirstBadRow(_, _)
FirstBadRow(rs, i) ==
    IF i > Len(rs) THEN -1
    ELSE IF Len(rs[i]) # Len(rs[1]) THEN i - 1
    ELSE FirstBadRow(rs, i + 1)

\* CheckRows placed after the first write to log (line 523)
CheckRowsAfterFirstWrite ==
    /\ pc = "check_rows"
    /\ log' = Append(log, IF ~opt.bold_outer THEN topleft ELSE topleft_bold)
    /\ LET b == FirstBadRow(rows, 2) IN
         IF b # -1
         THEN /\ pc' = "failed"
              /\ err' = [kind |-> "row_length", row |-> b]
         ELSE /\ pc' = "parse_justify"
              /\ err' = err
    /\ UNCHANGED <<arg, ret, rows, sep, justify, opt, log0, ncols, vert, vert_bold,
                   just, maxcol, lhs, rhs, xw, deficit, sum, rrr, ri, mat>>

CheckRows ==
    /\ pc = "check_rows"
    /\ LET b == FirstBadRow(rows, 2) IN
         IF b # -1
         THEN /\ pc' = "failed"
              /\ err' = [kind |-> "row_length", row |-> b]
         ELSE /\ pc' = "parse_justify"
              /\ err' = err
    /\ UNCHANGED <<arg, ret, rows, sep, justify, opt, log, log0, ncols, vert, vert_bold,
                   just, maxcol, lhs, rhs, xw, deficit, sum, rrr, ri, mat>>

\* ------------------------------------------------------------------------
\* ncols and the parse of justify (lines 219-255).

RECURSIVE MaxLen(_)
MaxLen(rs) == IF rs = <<>> THEN 0 ELSE Max(Len(rs[1]), MaxLen(Tail(rs)))

\* ParseFrom with assert!(count <= ncols) in place of assert!(count < ncols)
RECURSIVE ParseFromLax(_, _, _, _)
ParseFromLax(js, nc, p, st) ==
    IF p > Len(js) \/ st.kind # "none" THEN st
    ELSE IF js[p] = "|" \/ js[p] = "!" THEN
         IF st.count = 0
         THEN [st EXCEPT !.kind = "justify_start"]
         ELSE IF ~(st.count <= nc)
         THEN [st EXCEPT !.kind = "marker_position"]
         ELSE ParseFromLax(js, nc, p + 1,
                [st EXCEPT !.vert[st.count] = TRUE,
                           !.vert_bold[st.count] =
                               IF js[p] = "!" THEN TRUE ELSE st.vert_bold[st.count]])
    ELSE ParseFromLax(js, nc, p + 1,
                [st EXCEPT !.just = Append(st.just, js[p]), !.count = st.count + 1])

\* The state of the parse loop before justify[p]: st = [vert, vert_bold, just,
\* count, kind], kind # "none" once the loop has been left by fail! or assert!.
RECURSIVE ParseFrom(_, _, _, _)
ParseFrom(js, nc, p, st) ==
    IF p > Len(js) \/ st.kind # "none" THEN st
    ELSE IF js[p] = "|" \/ js[p] = "!" THEN
         IF st.count = 0
         THEN [st EXCEPT !.kind = "justify_start"]
         ELSE IF ~(st.count < nc)
         THEN [st EXCEPT !.kind = "marker_position"]
         ELSE ParseFrom(js, nc, p + 1,
                [st EXCEPT !.vert[st.count] = TRUE,
                           !.vert_bold[st.count] =
                               IF js[p] = "!" THEN TRUE ELSE st.vert_bold[st.count]])
    ELSE ParseFrom(js, nc, p + 1,
                [st EXCEPT !.just = Append(st.just, js[p]), !.count = st.count + 1])

ParseJustifyResult(js, nc) ==
    ParseFrom(js, nc, 1,
        [vert |-> [c \in 1..nc |-> FALSE], vert_bold |-> [c \in 1..nc |-> FALSE],
         just |-> <<>>, count |-> 0, kind |-> "none"])

\* JustCountOk accepting more column letters than columns
JustCountAtLeast(n, nc) == n >= nc

\* the test of line 256 passes
JustCountOk(n, nc) == n = nc

ParseJustify ==
    /\ pc = "parse_justify"
    /\ LET nc == MaxLen(rows)
           st == ParseJustifyResult(justify, nc) IN
         /\ ncols' = nc
         /\ rrr' = rows
         /\ vert' = st.vert
         /\ vert_bold' = st.vert_bold
         /\ just' = st.just
         /\ IF st.kind = "justify_start"
            THEN pc' = "failed" /\ err' = [kind |-> "justify_start", row |-> 0]
            ELSE IF st.kind = "marker_position"
            THEN pc' = "panic" /\ err' = [kind |-> "marker_position", row |-> 0]
            ELSE IF ~JustCountOk(Len(st.just), nc)
            THEN pc' = "panic" /\ err' = [kind |-> "justify_count", row |-> 0]
            ELSE pc' = "constraints" /\ err' = err
    /\ UNCHANGED <<arg, ret, rows, sep, justify, opt, log, log0, maxcol, lhs, rhs, xw,
                   deficit, sum, ri, mat>>

\* ------------------------------------------------------------------------
\* maxcol (lines 274-285 and again 496-507): for each column the largest
\* visible width of a cell that is neither followed by \ext, nor \ext, nor
\* a rule.

\* Counts that leaves out the last cell of a row
CountsBeforeLast(r, i, j) ==
    /\ j < Len(r[i]) /\ r[i][j + 1] # EXT
    /\ ~(r[i][j] = EXT \/ starts_with(r[i][j], HLINE))

Counts(r, i, j) ==
    /\ ~(j < Len(r[i]) /\ r[i][j + 1] = EXT)
    /\ ~(r[i][j] = EXT \/ starts_with(r[i][j], HLINE))

RECURSIVE MaxcolOf(_, _, _)
MaxcolOf(r, j, i) ==
    IF i > Len(r) THEN 0
    ELSE Max(IF j <= Len(r[i]) /\ Counts(r, i, j) THEN visible_width(r[i][j]) ELSE 0,
             MaxcolOf(r, j, i + 1))

Maxcol(r, nc) == [j \in 1..nc |-> MaxcolOf(r, j, 1)]

\* ------------------------------------------------------------------------
\* The linear constraints (lines 318-353).

\* end of the span that starts at column j of row i: the first k > j with
\* rrr[i][k] # \ext, or ncols + 1
RECURSIVE SpanEnd(_, _, _)
SpanEnd(row, nc, k) ==
    IF k <= nc /\ row[k] = EXT THEN SpanEnd(row, nc, k + 1) ELSE k

\* SpanNeed with the separation also taken off after the last cell of the span
\* (l < k in place of l < k - 1 at line 342)
RECURSIVE SpanNeedOffByOne(_, _, _, _, _)
SpanNeedOffByOne(row, vt, sp, l, k) ==
    IF l >= k THEN 0
    ELSE visible_width(row[l])
         - (sp + (IF l < k - 1 /\ vt[l] THEN sp + 1 ELSE 0))
         + SpanNeedOffByOne(row, vt, sp, l + 1, k)

\* r of lines 339-349 for the span [j, k)
RECURSIVE SpanNeed(_, _, _, _, _)
SpanNeed(row, vt, sp, l, k) ==
    IF l >= k THEN 0
    ELSE visible_width(row[l])
         - (IF l < k - 1 THEN sp + (IF vt[l] THEN sp + 1 ELSE 0) ELSE 0)
         + SpanNeed(row, vt, sp, l + 1, k)

\* the constraints of one row from column j on: a sequence of [con, r]
RECURSIVE RowConstraints(_, _, _, _, _)
RowConstraints(row, nc, vt, sp, j) ==
    IF j > nc THEN <<>>
    ELSE IF starts_with(row[j], HLINE) THEN RowConstraints(row, nc, vt, sp, j + 1)
    ELSE LET k == SpanEnd(row, nc, j + 1) IN
         <<[con |-> [c \in 1..nc |-> j <= c /\ c < k],
            r |-> Max(SpanNeed(row, vt, sp, j, k), 0)]>>
         \o RowConstraints(row, nc, vt, sp, k)

RECURSIVE Constraints(_, _, _, _, _)
Constraints(r, nc, vt, sp, i) ==
    IF i > Len(r) THEN <<>>
    ELSE RowConstraints(r[i], nc, vt, sp, 1) \o Constraints(r, nc, vt, sp, i + 1)

BuildConstraints ==
    /\ pc = "constraints"
    /\ maxcol' = Maxcol(rrr, ncols)
    /\ LET cs == Constraints(rrr, ncols, vert, sep, 1) IN
         /\ lhs' = [q \in 1..Len(cs) |-> cs[q].con]
         /\ rhs' = [q \in 1..Len(cs) |-> cs[q].r]
    /\ pc' = "solver_init"
    /\ UNCHANGED <<arg, ret, rows, sep, justify, opt, log, log0, err, ncols, vert, vert_bold,
                   just, xw, deficit, sum, rrr, ri, mat>>

\* ------------------------------------------------------------------------
\* The solver (lines 361-413).

\* lines 361-378: xw = 0, deficit = the sum of rhs, sum[i][j] = the left side
\* of constraint j once column i has been incremented
SolverInit ==
    /\ pc = "solver_init"
    /\ xw' = [c \in 1..ncols |-> 0]
    /\ deficit' = SumSeq(rhs)
    /\ sum' = [i \in 1..ncols |-> [j \in 1..Len(lhs) |-> IF lhs[j][i] THEN 1 ELSE 0]]
    /\ pc' = "solver_loop"
    /\ UNCHANGED <<arg, ret, rows, sep, justify, opt, log, log0, err, ncols, vert, vert_bold,
                   just, maxcol, lhs, rhs, rrr, ri, mat>>

\* CurrentDeficit without the test sum < rhs[j] of line 389
RECURSIVE CurrentDeficitUnguarded(_, _, _)
CurrentDeficitUnguarded(si, rh, j) ==
    IF j > Len(rh) THEN 0
    ELSE (rh[j] - si[j]) + CurrentDeficitUnguarded(si, rh, j + 1)

\* current_deficit of lines 386-392 for column i
RECURSIVE CurrentDeficit(_, _, _)
CurrentDeficit(si, rh, j) ==
    IF j > Len(rh) THEN 0
    ELSE (IF si[j] < rh[j] THEN rh[j] - si[j] ELSE 0) + CurrentDeficit(si, rh, j + 1)

\* Best with ties going to the later column
RECURSIVE BestOfLater(_, _, _, _, _, _)
BestOfLater(sm, rh, df, nc, i, b) ==
    IF i > nc THEN b
    ELSE LET cd == CurrentDeficit(sm[i], rh, 1) IN
         IF cd < df /\ df - cd >= b.best_improvement
         THEN BestOfLater(sm, rh, df, nc, i + 1, [best_improvement |-> df - cd, best_i |-> i - 1])
         ELSE BestOfLater(sm, rh, df, nc, i + 1, b)

\* lines 381-400: [best_improvement, best_i] after columns i..ncols have been
\* looked at, best_i in source numbering (0 when no column improves)
RECURSIVE Best(_, _, _, _, _, _)
Best(sm, rh, df, nc, i, b) ==
    IF i > nc THEN b
    ELSE LET cd == CurrentDeficit(sm[i], rh, 1) IN
         IF cd < df /\ df - cd > b.best_improvement
         THEN Best(sm, rh, df, nc, i + 1, [best_improvement |-> df - cd, best_i |-> i - 1])
         ELSE Best(sm, rh, df, nc, i + 1, b)

\* one iteration of the loop of lines 380-413
SolverStep ==
    /\ pc = "solver_loop"
    /\ LET b == Best(sum, rhs, deficit, ncols, 1, [best_improvement |-> 0, best_i |-> 0])
           bi == b.best_i + 1 IN
         IF bi > ncols
         THEN \* xw[best_i] with ncols = 0: index out of bounds
              /\ pc' = "panic"
              /\ err' = [kind |-> "index", row |-> 0]
              /\ UNCHANGED <<xw, sum, deficit>>
         ELSE /\ xw' = [xw EXCEPT ![bi] = @ + 1]
              /\ sum' = [i \in 1..ncols |->
                           [j \in 1..Len(lhs) |-> sum[i][j] + (IF lhs[j][bi] THEN 1 ELSE 0)]]
              /\ deficit' = deficit - b.best_improvement
              /\ pc' = IF deficit' = 0 THEN "pad" ELSE "solver_loop"
              /\ err' = err
    /\ UNCHANGED <<arg, ret, rows, sep, justify, opt, log, log0, ncols, vert, vert_bold,
                   just, maxcol, lhs, rhs, rrr, ri, mat>>

\* ------------------------------------------------------------------------
\* Add space according to ext entries (lines 451-492).

\* target of lines 459-470 for the cell at column j: xw[j], plus for every
\* \ext cell k that follows it xw[k] + sep, plus sep + 1 when vert[k-1]
RECURSIVE Target(_, _, _, _, _, _)
Target(row, nc, x, vt, sp, k) ==
    IF k <= nc /\ row[k] = EXT
    THEN x[k] + sp + (IF vt[k - 1] THEN sp + 1 ELSE 0) + Target(row, nc, x, vt, sp, k + 1)
    ELSE 0

\* PadCell that pads a spanning cell by the letter of its column
PadCellByLetter(row, nc, x, vt, sp, js, j) ==
    IF row[j] = EXT \/ starts_with(row[j], HLINE) THEN row[j]
    ELSE LET w == visible_width(row[j])
             target == x[j] + Target(row, nc, x, vt, sp, j + 1) IN
         IF target > w
         THEN IF js[j] = "l"
              THEN row[j] \o Rep(SP, target - w)
              ELSE Rep(SP, target - w) \o row[j]
         ELSE row[j]

PadCell(row, nc, x, vt, sp, js, j) ==
    IF row[j] = EXT \/ starts_with(row[j], HLINE) THEN row[j]
    ELSE LET w == visible_width(row[j])
             exting == j + 1 <= nc /\ row[j + 1] = EXT
             target == x[j] + Target(row, nc, x, vt, sp, j + 1) IN
         IF target > w
         THEN IF js[j] = "l" \/ exting
              THEN row[j] \o Rep(SP, target - w)
              ELSE Rep(SP, target - w) \o row[j]
         ELSE row[j]

AddSpace(r, nc, x, vt, sp, js) ==
    [i \in 1..Len(r) |-> [j \in 1..nc |-> PadCell(r[i], nc, x, vt, sp, js, j)]]

\* Update maxcol and replace leading ext (lines 494-518).
ReplaceLeadingExt(r, mc) ==
    [i \in 1..Len(r) |->
        IF r[i][1] = EXT THEN [r[i] EXCEPT ![1] = Rep(SP, mc[1])] ELSE r[i]]

Pad ==
    /\ pc = "pad"
    /\ LET padded == AddSpace(rrr, ncols, xw, vert, sep, just)
           mc == Maxcol(padded, ncols) IN
         /\ maxcol' = mc
         /\ rrr' = ReplaceLeadingExt(padded, mc)
    /\ pc' = "top"
    /\ UNCHANGED <<arg, ret, rows, sep, justify, opt, log, log0, err, ncols, vert, vert_bold,
                   just, lhs, rhs, xw, deficit, sum, ri, mat>>

\* ------------------------------------------------------------------------
\* Create top boundary of table (lines 520-563).

\* TopColumn without the separation after the tee (lines 549-555)
TopColumnNoGap(i) ==
    Rep(IF ~opt.bold_outer THEN dash ELSE dash_bold,
        maxcol[i] + (IF i < ncols THEN sep ELSE 0))
    \o (IF vert[i]
        THEN <<IF ~vert_bold[i]
               THEN (IF ~opt.bold_outer THEN tee ELSE tee_bold)
               ELSE tee_bold>>
        ELSE <<>>)

TopColumn(i) ==
    Rep(IF ~opt.bold_outer THEN dash ELSE dash_bold,
        maxcol[i] + (IF i < ncols THEN sep ELSE 0))
    \o (IF vert[i]
        THEN <<IF ~vert_bold[i]
               THEN (IF ~opt.bold_outer THEN tee ELSE tee_bold)
               ELSE tee_bold>>
             \o Rep(IF ~opt.bold_outer THEN dash ELSE dash_bold, sep)
        ELSE <<>>)

TopLine ==
    <<IF ~opt.bold_outer THEN topleft ELSE topleft_bold>>
    \o Concat([i \in 1..ncols |-> TopColumn(i)])
    \o <<IF ~opt.bold_outer THEN topright ELSE topright_bold>>
    \o <<NL>>

RenderTop ==
    /\ pc = "top"
    /\ log' = log \o TopLine
    /\ ri' = 1
    /\ pc' = IF Len(rrr) >= 1 THEN "body" ELSE "bottom"
    /\ UNCHANGED <<arg, ret, rows, sep, justify, opt, log0, err, ncols, vert, vert_bold,
                   just, maxcol, lhs, rhs, xw, deficit, sum, rrr, mat>>

\* ------------------------------------------------------------------------
\* Go through the rows (lines 565-694).

HDash(cell) == IF cell = HLINE THEN dash ELSE dash_bold

\* Pad entries according to justification (lines 578-617)
Entry(i, j) ==
    LET r == rrr[i][j] IN
    IF starts_with(r, HLINE) THEN Rep(HDash(r), maxcol[j])
    ELSE IF r = EXT THEN <<>>
    ELSE LET rlen == visible_width(r)
             lead == IF just[j] = "r" /\ rlen < maxcol[j]
                     THEN maxcol[j] - rlen ELSE 0
             xlen == lead + rlen
             trail == IF just[j] = "l" /\ xlen < maxcol[j]
                      THEN maxcol[j] - xlen ELSE 0 IN
         Rep(SP, lead) \o r \o Rep(SP, trail)

\* Separation that draws the separator through a span as well
SeparationThroughSpans(i, j) ==
    LET row == rrr[i]
        add_sep == ~(j + 1 <= Len(row) /\ row[j + 1] = EXT)
        jp == SpanEnd(row, Len(row), j + 1) - 1 IN
    (IF add_sep /\ jp < ncols
     THEN (IF starts_with(row[j], HLINE) THEN Rep(HDash(row[j]), sep) ELSE Rep(SP, sep))
     ELSE <<>>)
    \o
    (IF vert[j]
     THEN <<IF ~vert_bold[j] THEN verty ELSE verty_bold>> \o Rep(SP, sep)
     ELSE <<>>)

\* Add separations and separators (lines 619-684)
Separation(i, j) ==
    LET row == rrr[i]
        add_sep == ~(j + 1 <= Len(row) /\ row[j + 1] = EXT)
        jp == SpanEnd(row, Len(row), j + 1) - 1 IN
    (IF add_sep /\ jp < ncols
     THEN (IF starts_with(row[j], HLINE) THEN Rep(HDash(row[j]), sep) ELSE Rep(SP, sep))
     ELSE <<>>)
    \o
    (IF vert[j] /\ j + 1 > Len(row)
     THEN <<IF ~vert_bold[j] THEN verty ELSE verty_bold>> \o Rep(SP, sep)
     ELSE IF vert[j] /\ row[j + 1] # EXT
     THEN <<IF ~vert_bold[j] THEN verty ELSE verty_bold>>
          \o (IF starts_with(row[j + 1], HLINE)
              THEN Rep(HDash(row[j + 1]), sep)
              ELSE Rep(SP, sep))
     ELSE <<>>)

\* BodyLine with a bar after every column, separator or not
BodyLineWithBars(i) ==
    <<IF ~opt.bold_outer THEN verty ELSE verty_bold>>
    \o Concat([j \in 1..Min(ncols, Len(rrr[i])) |-> Entry(i, j) \o Separation(i, j) \o <<verty>>])
    \o <<IF ~opt.bold_outer THEN verty ELSE verty_bold>>
    \o <<NL>>

BodyLine(i) ==
    <<IF ~opt.bold_outer THEN verty ELSE verty_bold>>
    \o Concat([j \in 1..Min(ncols, Len(rrr[i])) |-> Entry(i, j) \o Separation(i, j)])
    \o <<IF ~opt.bold_outer THEN verty ELSE verty_bold>>
    \o <<NL>>

RenderRow ==
    /\ pc = "body"
    /\ log' = log \o BodyLine(ri)
    /\ ri' = ri + 1
    /\ pc' = IF ri + 1 <= Len(rrr) THEN "body" ELSE "bottom"
    /\ UNCHANGED <<arg, ret, rows, sep, justify, opt, log0, err, ncols, vert, vert_bold,
                   just, maxcol, lhs, rhs, xw, deficit, sum, rrr, mat>>

\* ------------------------------------------------------------------------
\* Bottom boundary (lines 695-746).

BottomColumn(i) ==
    LET last == rrr[Len(rrr)] IN
    Rep(IF ~opt.bold_outer THEN dash ELSE dash_bold,
        maxcol[i] + (IF i < ncols THEN sep ELSE 0))
    \o (IF vert[i]
        THEN <<IF i + 1 > Len(last)
               THEN (IF ~vert_bold[i] THEN dash ELSE dash_bold)
               ELSE IF last[i + 1] # EXT
               THEN (IF ~vert_bold[i] THEN uptee ELSE uptee_bold)
               ELSE (IF ~vert_bold[i] THEN dash ELSE dash_bold)>>
             \o Rep(IF ~vert_bold[i] THEN dash ELSE dash_bold, sep)
        ELSE <<>>)

BottomLine ==
    <<IF ~opt.bold_outer THEN botleft ELSE botleft_bold>>
    \o Concat([i \in 1..ncols |-> BottomColumn(i)])
    \o <<IF ~opt.bold_outer THEN botright ELSE botright_bold>>
    \o <<NL>>

RenderBottom ==
    /\ pc = "bottom"
    /\ log' = log \o BottomLine
    /\ pc' = "smooth"
    /\ UNCHANGED <<arg, ret, rows, sep, justify, opt, log0, err, ncols, vert, vert_bold,
                   just, maxcol, lhs, rhs, xw, deficit, sum, rrr, ri, mat>>

\* ------------------------------------------------------------------------
\* Convert into a super-character vec of matrices (lines 748-772): the lines
\* of log, empty lines dropped, each packaged.

\* the position of the first NL of lg at or after p, or Len(lg) + 1
RECURSIVE LineEnd(_, _)
LineEnd(lg, p) == IF p > Len(lg) \/ lg[p] = NL THEN p ELSE LineEnd(lg, p + 1)

RECURSIVE SplitLines(_, _)
SplitLines(lg, p) ==
    IF p > Len(lg) THEN <<>>
    ELSE LET e == LineEnd(lg, p)
             z == SubSeq(lg, p, e - 1) IN
         (IF z # <<>> THEN <<z>> ELSE <<>>) \o SplitLines(lg, e + 1)

BuildMat(lg) ==
    LET all == SplitLines(lg, 1) IN
    [i \in 1..Len(all) |-> package_characters_with_escapes_char(all[i])]

\* ------------------------------------------------------------------------
\* "Smooth" edges of hlines (lines 789-922).

IsDash(c) == c = <<dash>> \/ c = <<dash_bold>>
IsVerty(c) == c = <<verty>> \/ c = <<verty_bold>>
EndsVerty(c) == ends_with(c, verty) \/ ends_with(c, verty_bold)
IsTee(c) == c = <<tee>> \/ c = <<tee_bold>>

\* j > 0 && dash at j-1 && verty at j && j+1 < len && dash at j+1
\* (lines 794-798, 817-821, 845-849)
BarInRule(m, i, j) ==
    /\ j > 1
    /\ IsDash(m[i][j - 1])
    /\ IsVerty(m[i][j])
    /\ j < Len(m[i])
    /\ IsDash(m[i][j + 1])

\* lines 794-804
ToTee(m, i, j) ==
    /\ BarInRule(m, i, j)
    /\ i < Len(m)
    /\ j <= Len(m[i + 1])
    /\ EndsVerty(m[i + 1][j])
    /\ i > 1
    /\ (j > Len(m[i - 1]) \/ ~EndsVerty(m[i - 1][j]))
    /\ (j > Len(m[i - 1]) \/ ~IsTee(m[i - 1][j]))

\* lines 817-824
ToUpteeMaybe(m, i, j) ==
    /\ BarInRule(m, i, j)
    /\ i < Len(m)
    /\ j <= Len(m[i + 1])
    /\ ~EndsVerty(m[i + 1][j])

\* lines 845-851: "yes", "no", or "panic" when mat[i - 1][j] is out of bounds
ToCross(m, i, j) ==
    IF ~(BarInRule(m, i, j) /\ i > 1) THEN "no"
    ELSE IF j > Len(m[i - 1]) THEN "panic"
    ELSE IF EndsVerty(m[i - 1][j]) \/ IsTee(m[i - 1][j]) THEN "yes"
    ELSE "no"

\* lines 868-871
ToLefty(m, i, j) ==
    /\ IsVerty(m[i][j])
    /\ j < Len(m[i])
    /\ IsDash(m[i][j + 1])
    /\ (j = 1 \/ (~ends_with(m[i][j - 1], dash) /\ ~ends_with(m[i][j - 1], dash_bold)))

\* lines 886-889
ToRighty(m, i, j) ==
    /\ j > 1
    /\ IsDash(m[i][j - 1])
    /\ IsVerty(m[i][j])
    /\ (j = Len(m[i]) \/ ~IsDash(m[i][j + 1]))

\* lines 904-910
TeeToDash(m, i, j) ==
    /\ j > 1
    /\ i < Len(m)
    /\ IsTee(m[i][j])
    /\ (i >= Len(m) \/ j > Len(m[i + 1]) \/ ~EndsVerty(m[i + 1][j]))

Panicked == [ok |-> FALSE, m |-> <<>>]
Put(m, i, j, g) == [ok |-> TRUE, m |-> [m EXCEPT ![i][j] = <<g>>]]

\* the body of the loop of lines 793-921 at position (i, j)
SmoothCell(m, i, j) ==
    IF ToTee(m, i, j)
    THEN Put(m, i, j, IF ~opt.bold_outer THEN tee ELSE tee_bold)
    ELSE IF ToUpteeMaybe(m, i, j)
    THEN \* lines 832-844: mat[i - 1][j] is read whatever i is
         IF i = 1 \/ j > Len(m[i - 1]) THEN Panicked
         ELSE IF ~EndsVerty(m[i - 1][j])
         THEN Put(m, i, j, IF ends_with(m[i - 1][j], verty_bold) THEN dash_bold ELSE dash)
         ELSE Put(m, i, j, IF ~opt.bold_outer THEN uptee ELSE uptee_bold)
    ELSE IF ToCross(m, i, j) = "panic" THEN Panicked
    ELSE IF ToCross(m, i, j) = "yes"
    THEN Put(m, i, j,
             IF m[i][j - 1] = <<dash_bold>> /\ m[i - 1][j] = <<verty_bold>>
             THEN cross_bold_bold
             ELSE IF m[i][j - 1] = <<dash_bold>> THEN cross_bold2
             ELSE IF m[i - 1][j] = <<verty_bold>> THEN cross_bold1
             ELSE cross)
    ELSE IF ToLefty(m, i, j)
    THEN Put(m, i, j,
             IF ~opt.bold_outer THEN lefty
             ELSE IF m[i][j + 1] = <<dash_bold>> THEN lefty_bold_bold
             ELSE lefty_bold1)
    ELSE IF ToRighty(m, i, j)
    THEN Put(m, i, j,
             IF ~opt.bold_outer THEN righty
             ELSE IF m[i][j - 1] = <<dash_bold>> THEN righty_bold_bold
             ELSE righty_bold1)
    ELSE IF TeeToDash(m, i, j)
    THEN Put(m, i, j, IF opt.bold_outer THEN dash_bold ELSE dash)
    ELSE [ok |-> TRUE, m |-> m]

\* the loop of line 793 over positions j.. of line i
RECURSIVE SmoothLine(_, _, _)
SmoothLine(m, i, j) ==
    IF j > Len(m[i]) THEN [ok |-> TRUE, m |-> m]
    ELSE LET r == SmoothCell(m, i, j) IN
         IF r.ok THEN SmoothLine(r.m, i, j + 1) ELSE r

\* a smoother that decides every position from the grid as rendered
SmoothFromRendered(m, i) ==
    IF \E a \in 1..Len(m) : \E b \in 1..Len(m[a]) : ~SmoothCell(m, a, b).ok
    THEN Panicked
    ELSE [ok |-> TRUE,
          m |-> [a \in 1..Len(m) |-> [b \in 1..Len(m[a]) |-> SmoothCell(m, a, b).m[a][b]]]]

\* the loop of line 792 over lines i..: positions are visited in row-major order
RECURSIVE SmoothFrom(_, _)
SmoothFrom(m, i) ==
    IF i > Len(m) THEN [ok |-> TRUE, m |-> m]
    ELSE LET r == SmoothLine(m, i, 1) IN
         IF r.ok THEN SmoothFrom(r.m, i + 1) ELSE r

\* lines 748-922
Smooth ==
    /\ pc = "smooth"
    /\ LET r == SmoothFrom(BuildMat(log), 1) IN
         IF r.ok
         THEN mat' = r.m /\ pc' = "output" /\ err' = err
         ELSE mat' = BuildMat(log) /\ pc' = "panic"
              /\ err' = [kind |-> "index", row |-> 0]
    /\ UNCHANGED <<arg, ret, rows, sep, justify, opt, log, log0, ncols, vert, vert_bold,
                   just, maxcol, lhs, rhs, xw, deficit, sum, rrr, ri>>

\* ------------------------------------------------------------------------
\* Output matrix (lines 924-934).

\* MatText that writes the last character of every super-character only
MatTextOfLast(m) ==
    Concat([i \in 1..Len(m) |-> [j \in 1..Len(m[i]) |-> m[i][j][Len(m[i][j])]] \o <<NL>>])

MatText(m) == Concat([i \in 1..Len(m) |-> Concat(m[i]) \o <<NL>>])

\* Output that writes after the text an earlier call produced
OutputAfterEarlier ==
    /\ pc = "output"
    /\ log' = (IF arg = <<>> THEN <<>> ELSE ret) \o MatText(mat)
    /\ pc' = "done"
    /\ UNCHANGED <<arg, ret, rows, sep, justify, opt, log0, err, ncols, vert, vert_bold,
                   just, maxcol, lhs, rhs, xw, deficit, sum, rrr, ri, mat>>

Output ==
    /\ pc = "output"
    /\ log' = MatText(mat)
    /\ pc' = "done"
    /\ UNCHANGED <<arg, ret, rows, sep, justify, opt, log0, err, ncols, vert, vert_bold,
                   just, maxcol, lhs, rhs, xw, deficit, sum, rrr, ri, mat>>

\* ------------------------------------------------------------------------
\* A call: the arguments, and everything else as it is before line 175.

\* the locals of print_tabular_vbox before line 175
Blank ==
    /\ err = NoErr
    /\ ncols = 0
    /\ vert = <<>>
    /\ vert_bold = <<>>
    /\ just = <<>>
    /\ maxcol = <<>>
    /\ lhs = <<>>
    /\ rhs = <<>>
    /\ xw = <<>>
    /\ deficit = 0
    /\ sum = <<>>
    /\ rrr = <<>>
    /\ ri = 0
    /\ mat = <<>>

Entered(tbl, sp, js, o, lg) ==
    /\ rows = tbl
    /\ sep = sp
    /\ justify = js
    /\ opt = o
    /\ log = lg
    /\ log0 = lg
    /\ pc = "check_rows"
    /\ Blank
    /\ arg = <<>>
    /\ ret = <<>>

Next ==
    \/ CheckRows
    \/ ParseJustify
    \/ BuildConstraints
    \/ SolverInit
    \/ SolverStep
    \/ Pad
    \/ RenderTop
    \/ RenderRow
    \/ RenderBottom
    \/ Smooth
    \/ Output

\* ------------------------------------------------------------------------
\* A second call with the arguments of the first and an empty buffer. The
\* caller keeps the text of the first call (in ret; arg counts the calls).
\* The locals are left holding what the first call wrote: the second call
\* has to write each of them before it reads it.

print_tabular_vbox_again ==
    /\ pc = "done"
    /\ arg = <<>>
    /\ arg' = <<"again">>
    /\ ret' = log
    /\ log' = <<>>
    /\ pc' = "check_rows"
    /\ UNCHANGED <<rows, sep, justify, opt, log0, err, ncols, vert, vert_bold,
                   just, maxcol, lhs, rhs, xw, deficit, sum, rrr, ri, mat>>

NextTwice == Next \/ print_tabular_vbox_again

\* ------------------------------------------------------------------------
\* Calls of the other functions: the argument in arg, the result in ret.

\* f is called with a; print_tabular_vbox is not running
Called(f, a) ==
    /\ pc = f
    /\ arg = a
    /\ ret = <<>>
    /\ rows = <<>> /\ sep = 0 /\ justify = <<>>
    /\ opt = [bold_box |-> FALSE, bold_outer |-> FALSE]
    /\ log = <<>> /\ log0 = <<>>
    /\ Blank

visible_width_call ==
    /\ pc = "visible_width"
    /\ ret' = visible_width(arg)
    /\ pc' = "returned"
    /\ UNCHANGED <<arg, vbox>>

package_characters_with_escapes_char_call ==
    /\ pc = "package_characters_with_escapes_char"
    /\ ret' = package_characters_with_escapes_char(arg)
    /\ pc' = "returned"
    /\ UNCHANGED <<arg, vbox>>

package_characters_with_escapes_call ==
    /\ pc = "package_characters_with_escapes"
    /\ ret' = package_characters_with_escapes(arg)
    /\ pc' = "returned_bytes"
    /\ UNCHANGED <<arg, vbox>>

\* ------------------------------------------------------------------------
\* graph_simple: a digraph G = [n |-> number of vertices, edges |-> the
\* edges <<v, w>> in the order they were added]; the vertices are 0..n-1.

\* the edges out of v (d = 1) or into v (d = 2) as petgraph walks them, the
\* edge added last first: the other end of each
RECURSIVE EndsProper(_, _, _, _)
EndsProper(G, v, d, k) ==
    IF k = 0 THEN <<>>
    ELSE (IF G.edges[k][d] = v /\ G.edges[k][3 - d] # v
          THEN <<G.edges[k][3 - d]>> ELSE <<>>)
         \o EndsProper(G, v, d, k - 1)

RECURSIVE Ends(_, _, _, _)
Ends(G, v, d, k) ==
    IF k = 0 THEN <<>>
    ELSE (IF G.edges[k][d] = v THEN <<G.edges[k][3 - d]>> ELSE <<>>)
         \o Ends(G, v, d, k - 1)

n_from(G, v) == Len(Ends(G, v, 1, Len(G.edges)))
n_to(G, v) == Len(Ends(G, v, 2, Len(G.edges)))
v_from(G, v, j) == Ends(G, v, 1, Len(G.edges))[j + 1]
v_to(G, v, j) == Ends(G, v, 2, Len(G.edges))[j + 1]

source(G, v) == n_to(G, v) = 0
sink(G, v) == n_from(G, v) = 0

\* the vertices v..n-1 that are in S, in increasing order
RECURSIVE Listed(_, _, _)
Listed(n, v, S) ==
    IF v >= n THEN <<>>
    ELSE (IF v \in S THEN <<v>> ELSE <<>>) \o Listed(n, v + 1, S)

sources(G) == Listed(G.n, 0, {v \in 0..(G.n - 1) : source(G, v)})
sinks(G) == Listed(G.n, 0, {v \in 0..(G.n - 1) : sink(G, v)})

\* cyclic_core (lines 244-291). st = [sources, sinks, ins, outs, wrapped];
\* wrapped records a usize decremented at 0.

\* the loop over j in the first while loop (lines 256-262)
RECURSIVE FromSource(_, _, _, _)
FromSource(G, v, j, st) ==
    IF j >= n_from(G, v) THEN st
    ELSE LET w == v_from(G, v, j)
             low == st.ins[w] = 0
             x == IF low THEN 0 ELSE st.ins[w] - 1 IN
         FromSource(G, v, j + 1,
                    [st EXCEPT !.ins[w] = x,
                               !.wrapped = @ \/ low,
                               !.sources = IF x = 0 /\ ~low THEN Append(@, w) ELSE @])

\* the first while loop (lines 252-264), i counted from 1
RECURSIVE PeelSources(_, _, _)
PeelSources(G, i, st) ==
    IF i > Len(st.sources) THEN st
    ELSE LET v == st.sources[i] IN
         PeelSources(G, i + 1, FromSource(G, v, 0, [st EXCEPT !.outs[v] = 0]))

\* the loop over j in the second while loop (lines 272-281)
RECURSIVE ToSink(_, _, _, _)
ToSink(G, v, j, st) ==
    IF j >= n_to(G, v) THEN st
    ELSE LET w == v_to(G, v, j) IN
         IF st.ins[w] = 0 THEN ToSink(G, v, j + 1, st)
         ELSE LET low == st.outs[w] = 0
                  x == IF low THEN 0 ELSE st.outs[w] - 1 IN
              ToSink(G, v, j + 1,
                     [st EXCEPT !.outs[w] = x,
                                !.wrapped = @ \/ low,
                                !.sinks = IF x = 0 /\ ~low THEN Append(@, w) ELSE @])

\* the second while loop (lines 265-283)
RECURSIVE PeelSinks(_, _, _)
PeelSinks(G, i, st) ==
    IF i > Len(st.sinks) THEN st
    ELSE LET v == st.sinks[i] IN
         IF st.ins[v] = 0 THEN PeelSinks(G, i + 1, st)
         ELSE PeelSinks(G, i + 1, ToSink(G, v, 0, st))

cyclic_core_counts(G) ==
    PeelSinks(G, 1,
        PeelSources(G, 1,
            [sources |-> sources(G), sinks |-> sinks(G),
             ins |-> [v \in 0..(G.n - 1) |-> n_to(G, v)],
             outs |-> [v \in 0..(G.n - 1) |-> n_from(G, v)],
             wrapped |-> FALSE]))

cyclic_core(G) ==
    LET st == cyclic_core_counts(G) IN
    Listed(G.n, 0, {v \in 0..(G.n - 1) : st.ins[v] > 0 /\ st.outs[v] > 0})

\* acyclic (lines 309-311)
acyclic(G) == cyclic_core(G) = <<>>

cyclic_core_call ==
    /\ pc = "cyclic_core"
    /\ ret' = cyclic_core(arg)
    /\ pc' = "returned"
    /\ UNCHANGED <<arg, vbox>>

acyclic_call ==
    /\ pc = "acyclic"
    /\ ret' = acyclic(arg)
    /\ pc' = "returned_acyclic"
    /\ UNCHANGED <<arg, vbox>>

\* ------------------------------------------------------------------------
\* The calls the specifications start from.

Lit(w) == Rep("a", w)

DefaultOpt == [bold_box |-> FALSE, bold_outer |-> FALSE]
Opts == [bold_box : BOOLEAN, bold_outer : BOOLEAN]

\* the tables of nr rows and nc columns over the cells C
Rect(nr, nc, C) == [1..nr -> [1..nc -> C]]

\* justify for the column letters ls and the boundary markers ms ("" for none)
MkJustify(ls, ms) ==
    Concat([c \in 1..Len(ls) |->
              <<ls[c]>> \o (IF c < Len(ls) /\ ms[c] # "" THEN <<ms[c]>> ELSE <<>>)])

\* the well-formed justify arguments for nc columns, letters from L, markers from M
Justifies(nc, L, M) ==
    {MkJustify(ls, ms) : ls \in [1..nc -> L], ms \in [1..(IF nc > 0 THEN nc - 1 ELSE 0) -> M]}

\* Rows of any lengths and any justify: the calls that may fail the shape checks.
InitShape ==
    \E nr \in 0..ShapeRows :
      \E lens \in [1..nr -> 0..ShapeCols] :
        \E n \in 0..MaxJust :
          \E js \in [1..n -> {"l", "|", "!"}] :
            \E lg \in {<<>>, <<"z", NL>>} :
              Entered([i \in 1..nr |-> Rep(Lit(1), lens[i])], MaxSep, js, DefaultOpt, lg)

SpecShape == InitShape /\ [][Next]_vars

\* Rectangular tables whose rows are body rows (literal and continuation
\* cells) or rule rows, with plain separators: the calls that exercise the
\* constraints, the solver and the padder.
BodyCells == {Lit(0), Lit(MaxWidth), EXT}
BodyRows(nc) == [1..nc -> BodyCells]
RuleRows(nc, H) == {[c \in 1..nc |-> h] : h \in H}

InitSolve ==
    \E nr \in 0..MaxRows :
      \E nc \in 0..MaxCols :
        \E tbl \in [1..nr -> BodyRows(nc) \cup RuleRows(nc, {HLINE})] :
          \E js \in Justifies(nc, {"l"}, {"", "|"}) :
            \E sp \in 0..MaxSep :
              Entered(tbl, sp, js, DefaultOpt, <<>>)

SpecSolve == InitSolve /\ [][Next]_vars

\* Tables of literal cells only, some with escape sequences (complete and
\* unterminated) and wide glyphs, under every justification and marker.
EscCell == <<ESC, "[", "1", "m", "a">>
OpenEscCell == <<"a", ESC, "[", "1">>
PlainCells == {Lit(0), Lit(MaxWidth), EscCell, OpenEscCell, <<WIDE>>}

InitPlain ==
    \E nr \in 1..PlainRows :
      \E nc \in 1..PlainCols :
        \E tbl \in Rect(nr, nc, PlainCells) :
          \E js \in Justifies(nc, {"l", "r"}, {"", "|", "!"}) :
            \E sp \in 0..MaxSep :
              Entered(tbl, sp, js, DefaultOpt, <<>>)

SpecPlain == InitPlain /\ [][Next]_vars

\* Body rows of literal and continuation cells under every marker and option.
InitBody ==
    \E nr \in 1..MaxRows :
      \E nc \in 1..MaxCols :
        \E tbl \in Rect(nr, nc, {Lit(MaxWidth), EXT}) :
          \E js \in Justifies(nc, {"l"}, {"", "|", "!"}) :
            \E sp \in 0..MaxSep :
              \E o \in Opts :
                Entered(tbl, sp, js, o, <<>>)

SpecBody == InitBody /\ [][Next]_vars

\* A rule row between two body rows, under every marker and option.
InitRule ==
    \E nc \in 1..RuleCols :
      \E above \in BodyRows(nc) :
        \E rule \in RuleRows(nc, {HLINE, HLINE_BOLD}) :
          \E below \in BodyRows(nc) :
            \E js \in Justifies(nc, {"l"}, {"", "|", "!"}) :
              \E sp \in 0..MaxSep :
                \E o \in Opts :
                  Entered(<<above, rule, below>>, sp, js, o, <<>>)

SpecRule == InitRule /\ [][Next]_vars

\* A row of any literal and continuation cells, alone or above a row of
\* equal literal cells, under both justifications.
JustCells == {Lit(1), Lit(MaxWidth), EXT}

InitJust ==
    \E nc \in 1..MaxCols :
      \E first \in [1..nc -> JustCells] :
        \E rest \in {<<>>, <<[c \in 1..nc |-> Lit(1)]>>, <<[c \in 1..nc |-> Lit(MaxWidth)]>>} :
          \E js \in Justifies(nc, {"l", "r"}, {"", "|"}) :
            \E sp \in 0..MaxSep :
              Entered(<<first>> \o rest, sp, js, DefaultOpt, <<>>)

SpecJust == InitJust /\ [][Next]_vars

\* Cells with an escape sequence before a character and after the last one,
\* alone or around a rule row, with spans, under both justifications.
TailEscCell == <<"a", ESC, "[", "m">>
EscCells == {EscCell, TailEscCell, Lit(MaxWidth), EXT}

InitEsc ==
    \E nc \in 1..EscCols :
      \E first \in [1..nc -> EscCells] :
        \E rest \in {<<>>} \cup
                    {<<rule, last>> : rule \in RuleRows(nc, {HLINE}), last \in [1..nc -> EscCells]} :
          \E js \in Justifies(nc, {"l", "r"}, {"", "|"}) :
            \E sp \in 0..MaxSep :
              Entered(<<first>> \o rest, sp, js, DefaultOpt, <<>>)

SpecEsc == InitEsc /\ [][Next]_vars

\* Rows that mix literal cells and rule cells, a literal cell ending in an
\* escape sequence among them, under every marker and option.
MixedCells == {Lit(1), TailEscCell, HLINE, HLINE_BOLD}

InitMixed ==
    \E nr \in 1..MixedRows :
      \E nc \in 1..MixedCols :
        \E tbl \in Rect(nr, nc, MixedCells) :
          \E js \in Justifies(nc, {"l"}, {"", "|", "!"}) :
            \E sp \in 0..MaxSep :
              \E o \in Opts :
                Entered(tbl, sp, js, o, <<>>)

SpecMixed == InitMixed /\ [][Next]_vars

\* Tables of one column: every kind of cell, every option.
OneCells == {Lit(0), Lit(MaxWidth), EscCell, OpenEscCell, <<WIDE>>, EXT, HLINE, HLINE_BOLD}

InitOne ==
    \E nr \in 1..OneRows :
      \E tbl \in Rect(nr, 1, OneCells) :
        \E js \in Justifies(1, {"l", "r"}, {""}) :
          \E o \in Opts :
            Entered(tbl, MaxSep, js, o, <<>>)

SpecOne == InitOne /\ [][Next]_vars

\* Two calls in a row on a table with a rule row between two body rows.
SpecTwice == InitRule /\ [][NextTwice]_vars

\* The strings visible_width is called with: the sentinels and every string
\* of up to MaxStr characters, escape characters, 'm' and wide glyphs among
\* them.
WidthChars == {"a", "m", ESC, WIDE}

RECURSIVE Strings(_, _)
Strings(A, n) ==
    IF n = 0 THEN {<<>>}
    ELSE LET S == Strings(A, n - 1) IN
         S \cup {Append(t, ch) : t \in {u \in S : Len(u) = n - 1}, ch \in A}

InitWidth ==
    \E a \in Strings(WidthChars, MaxStr) \cup {EXT, HLINE, HLINE_BOLD} :
        Called("visible_width", a)

NextWidth == visible_width_call

SpecWidth == InitWidth /\ [][NextWidth]_vars

\* Calls on a buffer that holds something: a line, an empty line, a line
\* without its newline, lines around an empty line, a line with a bar.
LogsBefore ==
    {<<>>, <<"x", NL>>, <<NL>>, <<"x">>, <<"x", NL, NL, "y", NL>>, <<"verty", NL>>}

InitLog ==
    \E nr \in 1..LogRows :
      \E nc \in 1..LogCols :
        \E tbl \in Rect(nr, nc, {Lit(1), HLINE}) :
          \E js \in Justifies(nc, {"l"}, {"", "|"}) :
            \E sp \in 0..MaxSep :
              \E lg \in LogsBefore :
                Entered(tbl, sp, js, DefaultOpt, lg)

SpecLog == InitLog /\ [][Next]_vars

\* ASCII strings of up to MaxStr characters, escape sequences among them.
PackageChars == {"a", "m", ESC, "["}

InitPackage ==
    \E a \in Strings(PackageChars, MaxStr) :
      \E f \in {"package_characters_with_escapes_char", "package_characters_with_escapes"} :
        Called(f, a)

NextPackage == package_characters_with_escapes_char_call \/ package_characters_with_escapes_call

SpecPackage == InitPackage /\ [][NextPackage]_vars

\* The digraphs of up to MaxNodes vertices and MaxEdges edges, self-loops
\* and parallel edges among them.
Digraphs ==
    UNION {{[n |-> n, edges |-> es] : es \in Strings((0..(n - 1)) \X (0..(n - 1)), MaxEdges)} :
           n \in 0..MaxNodes}

InitGraph ==
    \E G \in Digraphs : \E f \in {"cyclic_core", "acyclic"} : Called(f, G)

NextGraph == cyclic_core_call \/ acyclic_call

SpecGraph == InitGraph /\ [][NextGraph]_vars

\* ------------------------------------------------------------------------
\* Properties.

AfterSolver == pc \in {"pad", "top", "body", "bottom", "smooth", "output", "done"}
AfterPad == pc \in {"top", "body", "bottom", "smooth", "output", "done"}

IsRule(cell) == starts_with(cell, HLINE)
IsLiteral(cell) == cell # EXT /\ ~IsRule(cell)

\* the end k of the maximal span [j, k) of a row: the cells j+1..k-1 are
\* continuation cells and the cell k, if there is one, is not
MaximalSpanEnd(row, j) ==
    CHOOSE k \in (j + 1)..(Len(row) + 1) :
        /\ \A l \in (j + 1)..(k - 1) : row[l] = EXT
        /\ (k = Len(row) + 1 \/ row[k] # EXT)

SumRange(f, a, b) == SumSeq([q \in 1..(b - a + 1) |-> f[a + q - 1]])

\* the width a span [j, k) has once the columns have the widths w
SpanRoom(w, j, k) ==
    SumRange(w, j, k - 1) + sep * (k - j - 1)
    + (sep + 1) * Cardinality({l \in j..(k - 2) : vert[l]})

\* C1: when the width solver has finished, every span [j, k) of every row,
\* a literal cell at j followed by continuation cells up to k, has room for
\* its leading cell: the solved widths of its columns plus sep for each inner
\* boundary plus sep + 1 for each inner separator boundary is at least the
\* visible width of the cell.
C1_SpanConstraintsHold ==
    AfterSolver =>
        \A i \in 1..Len(rows) : \A j \in 1..ncols :
            IsLiteral(rows[i][j]) =>
                SpanRoom(xw, j, MaximalSpanEnd(rows[i], j)) >= visible_width(rows[i][j])

\* a span of two columns across a separator with sep > 0, met exactly
C1_Witness ==
    /\ AfterSolver
    /\ sep > 0
    /\ \E i \in 1..Len(rows) : \E j \in 1..ncols :
         /\ IsLiteral(rows[i][j])
         /\ MaximalSpanEnd(rows[i], j) = j + 2
         /\ vert[j]
         /\ SumSeq(xw) > 0
         /\ SpanRoom(xw, j, j + 2) = visible_width(rows[i][j])

\* the total deficit of the constraints under the widths xw
Lhs(j) == SumSeq([c \in 1..ncols |-> IF lhs[j][c] THEN xw[c] ELSE 0])
TotalDeficit == SumSeq([j \in 1..Len(rhs) |-> IF Lhs(j) < rhs[j] THEN rhs[j] - Lhs(j) ELSE 0])

\* C2: in a table with at least one column every iteration of the solver
\* loop increments exactly one column by one; while the total deficit is
\* positive the iteration strictly decreases it, and the loop is left exactly
\* when the total deficit has reached 0.
C2_SolverTerminates ==
    [][(pc = "solver_loop" /\ ncols >= 1) =>
          /\ \E c \in 1..ncols : xw' = [xw EXCEPT ![c] = @ + 1]
          /\ TotalDeficit > 0 => TotalDeficit' < TotalDeficit
          /\ pc' \in {"solver_loop", "pad"}
          /\ pc' = "pad" <=> TotalDeficit' = 0]_vars

\* the loop has been left after three or more iterations
C2_Witness == pc = "pad" /\ SumSeq(xw) >= 3 /\ TotalDeficit = 0

\* ------------------------------------------------------------------------
\* The shape checks.

Markers == {"|", "!"}
Ragged == \E i \in 2..Len(rows) : Len(rows[i]) # Len(rows[1])
TableCols ==
    IF rows = <<>> THEN 0
    ELSE CHOOSE n \in {Len(rows[i]) : i \in 1..Len(rows)} :
             \A i \in 1..Len(rows) : Len(rows[i]) <= n
ColumnLetters(js) == Cardinality({p \in 1..Len(js) : js[p] \notin Markers})
LettersBefore(js, p) == Cardinality({q \in 1..(p - 1) : js[q] \notin Markers})
IllegalMarker(js, nc) ==
    \E p \in 1..Len(js) :
        js[p] \in Markers /\ (LettersBefore(js, p) = 0 \/ LettersBefore(js, p) >= nc)

BeforeShapeChecks == pc \in {"check_rows", "parse_justify"}
Stopped == pc \in {"failed", "panic"}
ShapeError ==
    \/ pc = "failed"
    \/ pc = "panic" /\ err.kind \in {"marker_position", "justify_count"}

\* C3: when some row i >= 1 differs in length from row 0, the call stops at
\* the row test with the row-length error, which names the first such row
\* (numbered from 0); nothing else fails first.
C3_RowLengthError ==
    (Ragged /\ pc # "check_rows") =>
        /\ pc = "failed"
        /\ err.kind = "row_length"
        /\ err.row \in 1..(Len(rows) - 1)
        /\ Len(rows[err.row + 1]) # Len(rows[1])
        /\ \A i \in 1..err.row : Len(rows[i]) = Len(rows[1])

\* the error names row 2: row 1 has the length of row 0
C3_Witness == pc = "failed" /\ err.kind = "row_length" /\ err.row = 2

\* C4: when the number of column letters of justify differs from the number
\* of columns the call stops before anything is rendered, log untouched;
\* when they are equal, the markers legal and the rows of one length, no
\* shape error is raised.
C4_LetterCount ==
    /\ ColumnLetters(justify) # TableCols =>
           (BeforeShapeChecks \/ Stopped) /\ log = log0
    /\ (ColumnLetters(justify) = TableCols /\ ~IllegalMarker(justify, TableCols) /\ ~Ragged)
           => ~ShapeError

\* a call with one column letter too many has stopped at the count test, and
\* elsewhere a call with markers has passed the shape checks
C4_Witness ==
    /\ pc = "panic" /\ err.kind = "justify_count"
    /\ ~Ragged /\ ColumnLetters(justify) = TableCols + 1

\* C5: a marker before the first column letter or after ncols or more column
\* letters stops the call; otherwise, once justify is parsed, the boundary
\* after column c is a separator exactly when a marker follows c column
\* letters, and a bold one exactly when a '!' does.
C5_MarkerPositions ==
    /\ IllegalMarker(justify, TableCols) => (BeforeShapeChecks \/ Stopped)
    /\ ~(BeforeShapeChecks \/ Stopped) =>
           \A c \in 1..ncols :
               /\ vert[c] <=> \E p \in 1..Len(justify) :
                      justify[p] \in Markers /\ LettersBefore(justify, p) = c
               /\ vert_bold[c] <=> \E p \in 1..Len(justify) :
                      justify[p] = "!" /\ LettersBefore(justify, p) = c

\* three columns, a plain separator after the first and a bold one after the second
C5_Witness ==
    /\ pc = "constraints"
    /\ ncols = 3
    /\ vert = <<TRUE, TRUE, FALSE>>
    /\ vert_bold = <<FALSE, TRUE, FALSE>>

\* a trailing marker after the last column letter has stopped the call
C5_WitnessTrailing ==
    /\ pc = "panic" /\ err.kind = "marker_position"
    /\ ~Ragged /\ Len(justify) > 0 /\ justify[Len(justify)] \in Markers
    /\ ColumnLetters(justify) = TableCols

\* C6: when the call has stopped with a shape error, log is as it was on entry.
C6_NoOutputBeforeShapeError == ShapeError => log = log0

\* a shape error of each kind with a non-empty log
C6_Witness == ShapeError /\ log0 # <<>> /\ err.kind = "justify_count"

\* ------------------------------------------------------------------------
\* Column widths and line widths.

\* a literal cell that is not followed by a continuation cell
NonSpanning(tbl, i, j) ==
    IsLiteral(tbl[i][j]) /\ ~(j < Len(tbl[i]) /\ tbl[i][j + 1] = EXT)

\* C7: once the cells are padded, maxcol[j] is at least the visible width of
\* every non-spanning literal cell of column j, in every row.
C7_MaxcolCoversCells ==
    AfterPad =>
        \A i \in 1..Len(rows) : \A j \in 1..ncols :
            NonSpanning(rows, i, j) => maxcol[j] >= visible_width(rows[i][j])

\* two rows whose non-spanning cells of one column differ in width, the
\* wider one in the last row
C7_Witness ==
    /\ AfterPad
    /\ Len(rows) = 2
    /\ \E j \in 1..ncols :
         /\ NonSpanning(rows, 1, j) /\ NonSpanning(rows, 2, j)
         /\ visible_width(rows[1][j]) < visible_width(rows[2][j])
         /\ maxcol[j] = visible_width(rows[2][j])

\* the lines of a text
TextLines(lg) == SplitLines(lg, 1)

NoSpansNoRules == \A i \in 1..Len(rows) : \A j \in 1..Len(rows[i]) : IsLiteral(rows[i][j])

\* 2 + the column widths + sep between columns + (1 + sep) per separator
BoxWidth ==
    2 + SumSeq(maxcol) + sep * (ncols - 1)
    + (1 + sep) * Cardinality({c \in 1..ncols : vert[c]})

\* C8 as stated: in a table without continuation and rule cells every line
\* of the output has the visible width BoxWidth, whatever the cells hold.
C8_AllLinesBoxWidth ==
    (pc = "done" /\ NoSpansNoRules) =>
        /\ Len(TextLines(log)) = Len(rows) + 2
        /\ \A n \in 1..Len(TextLines(log)) : visible_width(TextLines(log)[n]) = BoxWidth

\* an escape sequence of s is left open: an ESC with no later 'm'
OpenEscape(s) ==
    \E p \in 1..Len(s) : s[p] = ESC /\ \A q \in (p + 1)..Len(s) : s[q] # "m"

NoOpenEscapes == \A i \in 1..Len(rows) : \A j \in 1..Len(rows[i]) : ~OpenEscape(rows[i][j])

\* Where C8 does hold: in a table without continuation cells, rule cells and
\* cells that leave an escape sequence open, the output has one line per row
\* plus the two borders and every line has the visible width BoxWidth.
C8_AllLinesBoxWidthClosedEscapes ==
    (pc = "done" /\ NoSpansNoRules /\ NoOpenEscapes) =>
        /\ Len(TextLines(log)) = Len(rows) + 2
        /\ \A n \in 1..Len(TextLines(log)) : visible_width(TextLines(log)[n]) = BoxWidth

\* two rows and two columns with a separator and sep > 0, an empty cell, a
\* cell with an escape sequence and a wide glyph
C8_Witness ==
    /\ pc = "done" /\ NoSpansNoRules /\ NoOpenEscapes
    /\ Len(rows) = 2 /\ ncols = 2 /\ vert[1] /\ sep > 0
    /\ rows[1] = <<Lit(0), EscCell>>
    /\ rows[2][1] = <<WIDE>>

\* ------------------------------------------------------------------------
\* The rule row between two body rows (SpecRule: lines 1..5 of the output
\* are the top border, row 0, the rule row, row 2 and the bottom border).

\* the position in a rule line of the bar of the boundary after column c
BoundaryPos(c) ==
    1 + SumRange(maxcol, 1, c) + sep * c
    + (1 + sep) * Cardinality({d \in 1..(c - 1) : vert[d]}) + 1

Bars == {<<"verty">>, <<"VERTY">>}
Crosses == {<<"cross">>, <<"CROSS">>, <<"cross_bold1">>, <<"cross_bold2">>}
Tees == {<<"tee">>, <<"TEE">>}
Uptees == {<<"uptee">>, <<"UPTEE">>}
Dashes == {<<"dash">>, <<"DASH">>}

HasBarAt(line, p) == p <= Len(line) /\ line[p] \in Bars

EveryColumnHasLiteral ==
    \A c \in 1..ncols : \E i \in 1..Len(rows) :
        c <= Len(rows[i]) /\ NonSpanning(rows, i, c)

RuleBetweenBodies ==
    /\ Len(rows) = 3
    /\ \A c \in 1..ncols : ~IsRule(rows[1][c]) /\ IsRule(rows[2][c]) /\ ~IsRule(rows[3][c])

\* what C9 says of the boundary after column c
JunctionAsStated(c) ==
    LET p == BoundaryPos(c)
        up == HasBarAt(mat[2], p)
        dn == HasBarAt(mat[4], p)
        g == mat[3][p] IN
    /\ (up /\ dn) => g \in Crosses
    /\ (~up /\ dn) => g \in Tees
    /\ (up /\ ~dn) => g \in Uptees
    /\ (~up /\ ~dn) => g \in Dashes

\* C9 as stated: the glyph of the rule row at every separator boundary is
\* a cross, a tee, an up-tee or a dash as the rows above and below have a
\* bar there or not.
C9_RuleRowJunctions ==
    (pc = "done" /\ RuleBetweenBodies /\ EveryColumnHasLiteral) =>
        \A c \in 1..ncols : vert[c] => JunctionAsStated(c)

\* the bar of the boundary after column c has a dash on both sides in the
\* rule line
DashBothSides(c) ==
    LET p == BoundaryPos(c) IN
    /\ p + 1 <= Len(mat[3])
    /\ mat[3][p - 1] \in Dashes
    /\ mat[3][p + 1] \in Dashes

NoLeadingExt == \A i \in 1..Len(rows) : rows[i][1] # EXT

\* Where C9 does hold: no row begins with a continuation cell and the
\* boundary has a horizontal dash on both sides in the rule row.
C9_JunctionsBetweenDashes ==
    (pc = "done" /\ RuleBetweenBodies /\ EveryColumnHasLiteral /\ NoLeadingExt) =>
        \A c \in 1..ncols : (vert[c] /\ DashBothSides(c)) => JunctionAsStated(c)

\* the four cases, each at a boundary between dashes
C9_Case(c, up, dn) ==
    /\ pc = "done" /\ RuleBetweenBodies /\ EveryColumnHasLiteral
    /\ c <= ncols /\ vert[c] /\ DashBothSides(c)
    /\ HasBarAt(mat[2], BoundaryPos(c)) = up
    /\ HasBarAt(mat[4], BoundaryPos(c)) = dn

C9_Witness == C9_Case(1, TRUE, TRUE) /\ mat[3][BoundaryPos(1)] \in Crosses
C9_WitnessTee == C9_Case(1, FALSE, TRUE) /\ mat[3][BoundaryPos(1)] \in Tees
C9_WitnessUptee == C9_Case(1, TRUE, FALSE) /\ mat[3][BoundaryPos(1)] \in Uptees

\* sep >= 1, or no column of width 0, puts every boundary between dashes
C9_DashesWhenRoom ==
    (pc = "done" /\ RuleBetweenBodies /\ (sep >= 1 \/ \A c \in 1..ncols : maxcol[c] > 0)) =>
        \A c \in 1..(ncols - 1) : vert[c] => DashBothSides(c)

\* ------------------------------------------------------------------------
\* The bars of the body rows (SpecBody: rows of literal and continuation
\* cells).

RowsRendered == pc \in {"smooth", "output", "done"}

IsBar(ch) == ch \in {"verty", "VERTY"}

\* the bars of a line between its first and its last character
InnerBars(line) == SelectSeq(SubSeq(line, 2, Len(line) - 1), IsBar)

\* the bars a row owes, left to right: one per separator boundary whose
\* right-hand cell is not a continuation cell; plain(c) is the glyph of a
\* '|' boundary
RECURSIVE OwedBars(_, _, _)
OwedBars(row, c, plain) ==
    IF c >= ncols THEN <<>>
    ELSE (IF vert[c] /\ row[c + 1] # EXT
          THEN <<IF vert_bold[c] THEN "VERTY" ELSE plain>>
          ELSE <<>>)
         \o OwedBars(row, c + 1, plain)

LiteralRow(row) == \A c \in 1..Len(row) : ~IsRule(row[c])

\* C10 as stated: the bars of every body row are, left to right, one bar
\* per separator boundary not crossed by a span, plain for '|' and bold
\* for '!', and none at a boundary inside a span.
C10_BodyRowBars ==
    RowsRendered =>
        \A i \in 1..Len(rows) : LiteralRow(rows[i]) =>
            InnerBars(TextLines(log)[i + 1]) = OwedBars(rows[i], 1, "verty")

\* C10 as amended: the same, where the bar of a '|' boundary has the weight
\* of the box: plain, and bold when the box characters are drawn bold.
C10_BodyRowBarsBoxWeight ==
    RowsRendered =>
        \A i \in 1..Len(rows) : LiteralRow(rows[i]) =>
            InnerBars(TextLines(log)[i + 1]) =
                OwedBars(rows[i], 1, IF opt.bold_box THEN "VERTY" ELSE "verty")

\* a row with a span across a '|' boundary and a '!' boundary after it,
\* above a row that no span crosses
C10_Witness ==
    /\ pc = "done" /\ ncols = 3 /\ Len(rows) = 2
    /\ vert = <<TRUE, TRUE, FALSE>> /\ vert_bold = <<FALSE, TRUE, FALSE>>
    /\ rows[1] = <<Lit(MaxWidth), EXT, Lit(MaxWidth)>>
    /\ rows[2] = <<Lit(MaxWidth), Lit(MaxWidth), Lit(MaxWidth)>>
    /\ InnerBars(TextLines(log)[2]) = <<"VERTY">>
    /\ InnerBars(TextLines(log)[3]) = <<verty, "VERTY">>

\* ------------------------------------------------------------------------
\* Justification of the cells (SpecJust, SpecPlain).

Spanning(row, j) == IsLiteral(row[j]) /\ j < Len(row) /\ row[j + 1] = EXT

\* what follows the last column j of a cell or span in a body line
GapAfter(j) ==
    IF j >= ncols THEN <<>>
    ELSE Rep(SP, sep)
         \o (IF vert[j]
             THEN <<IF vert_bold[j] THEN verty_bold ELSE verty>> \o Rep(SP, sep)
             ELSE <<>>)

\* a cell's content s in a field of width w: 'l' content first, 'r' content last
Field(s, w, letter) ==
    IF letter = "l"
    THEN s \o Rep(SP, Max(0, w - visible_width(s)))
    ELSE Rep(SP, Max(0, w - visible_width(s))) \o s

\* the part of its body line a cell accounts for: a spanning cell is
\* left-justified in the room of its span, any other literal cell is
\* justified by the letter of its column in the width of the column
ExpectedCell(i, j) ==
    LET row == rows[i]
        k == MaximalSpanEnd(row, j) IN
    IF row[j] = EXT THEN <<>>
    ELSE (IF Spanning(row, j)
          THEN Field(row[j], SpanRoom(xw, j, k), "l")
          ELSE Field(row[j], maxcol[j], just[j]))
         \o GapAfter(k - 1)

OuterBar == IF opt.bold_outer THEN verty_bold ELSE verty

ExpectedLine(i) ==
    <<OuterBar>> \o Concat([j \in 1..ncols |-> ExpectedCell(i, j)]) \o <<OuterBar>>

C12_CellsInFields ==
    (RowsRendered /\ NoSpansNoRules) =>
        \A i \in 1..Len(rows) : TextLines(log)[i + 1] = ExpectedLine(i)

\* Where C12 does hold: no cell leaves an escape sequence open.
C12_CellsInFieldsClosedEscapes ==
    (RowsRendered /\ NoSpansNoRules /\ NoOpenEscapes) =>
        \A i \in 1..Len(rows) : TextLines(log)[i + 1] = ExpectedLine(i)

\* a cell with an escape sequence padded on the left in an 'r' column and
\* an empty cell padded on the right in an 'l' column
C12_Witness ==
    /\ pc = "done" /\ NoSpansNoRules /\ NoOpenEscapes
    /\ ncols = 2 /\ Len(rows) = 2
    /\ just = <<"r", "l">>
    /\ rows[1] = <<EscCell, Lit(0)>>
    /\ rows[2] = <<Lit(MaxWidth), Lit(MaxWidth)>>

\* ------------------------------------------------------------------------
\* visible_width (SpecWidth).

Returned == pc = "returned"

IsSentinel(s) == s \in {EXT, HLINE, HLINE_BOLD}

\* the character at p lies in an escape sequence: an ESC at or before p
\* with no 'm' between it and p
InEscape(s, p) ==
    \E q \in 1..p : s[q] = ESC /\ \A t \in (q + 1)..(p - 1) : s[t] # "m"

\* the characters outside escape sequences, a wide glyph counted twice
CountedWidth(s) ==
    Cardinality({p \in 1..Len(s) : ~InEscape(s, p)})
    + Cardinality({p \in 1..Len(s) : ~InEscape(s, p) /\ s[p] = WIDE})

EscSeq == <<ESC, "[", "m">>

\* s with a complete escape sequence put between its characters p and p + 1
Inserted(s, p) == SubSeq(s, 1, p) \o EscSeq \o SubSeq(s, p + 1, Len(s))

WidthAsCounted ==
    (Returned /\ ~OpenEscape(arg)) =>
        ret = IF IsSentinel(arg) THEN 0 ELSE CountedWidth(arg)

EscapedAfter(s, p) ==
    \E q \in 1..p : s[q] = ESC /\ \A t \in (q + 1)..p : s[t] # "m"

C13_WitnessSentinel == Returned /\ arg = HLINE_BOLD /\ ret = 0

\* the place of the first ESC of s that no 'm' follows
OpenAt(s) ==
    CHOOSE p \in 1..Len(s) :
        /\ s[p] = ESC /\ (\A q \in (p + 1)..Len(s) : s[q] # "m")
        /\ \A r \in 1..(p - 1) : ~(s[r] = ESC /\ \A q \in (r + 1)..Len(s) : s[q] # "m")

\* C14: for a string with an ESC that no 'm' follows, visible_width is the
\* width of the characters before that ESC.
C14_UnterminatedEscape ==
    (Returned /\ OpenEscape(arg)) =>
        ret = CountedWidth(SubSeq(arg, 1, OpenAt(arg) - 1))

\* visible characters on both sides of the unterminated ESC
C14_Witness ==
    /\ Returned
    /\ arg = <<"a", ESC, "a", WIDE>>
    /\ ret = 1

\* ------------------------------------------------------------------------
\* Escape sequences in cells (SpecEsc).

\* the place of the first 'm' of t after p
RECURSIVE NextM(_, _)
NextM(t, p) == IF p >= Len(t) \/ t[p + 1] = "m" THEN p + 1 ELSE NextM(t, p + 1)

\* the complete escape sequences of t from p on, in order, each with the
\* character that follows it ("END" at the end of t)
RECURSIVE EscPairs(_, _)
EscPairs(t, p) ==
    IF p > Len(t) THEN <<>>
    ELSE IF t[p] # ESC THEN EscPairs(t, p + 1)
    ELSE LET q == NextM(t, p) IN
         IF q > Len(t) THEN <<>>
         ELSE <<[seq |-> SubSeq(t, p, q),
                 next |-> IF q < Len(t) THEN t[q + 1] ELSE "END"]>>
              \o EscPairs(t, q + 1)

\* the escape sequences of the cells of row i, cell after cell
RowEscPairs(i) ==
    Concat([j \in 1..Len(rows[i]) |->
              IF IsLiteral(rows[i][j]) THEN EscPairs(rows[i][j], 1) ELSE <<>>])

\* the line shows the sequences of the cells: the same sequences in the same
\* order, each before the character it preceded in the cell or, at the end
\* of a cell, before whatever follows the cell
ShowsEscapes(line, want) ==
    LET got == EscPairs(line, 1) IN
    /\ Len(got) = Len(want)
    /\ \A n \in 1..Len(want) :
         /\ got[n].seq = want[n].seq
         /\ want[n].next # "END" => got[n].next = want[n].next
         /\ got[n].next # "END"

\* C15: every line of the output shows the escape sequences of its row (the
\* borders and the rule rows none), and the smoother leaves every
\* super-character that carries an escape sequence as it was and where it
\* was.
C15_EscapesSurvive ==
    /\ pc = "done" =>
         /\ Len(TextLines(log)) = Len(rows) + 2
         /\ \A n \in 1..Len(TextLines(log)) :
              ShowsEscapes(TextLines(log)[n],
                           IF n = 1 \/ n = Len(rows) + 2 THEN <<>> ELSE RowEscPairs(n - 1))
    /\ pc = "output" =>
         LET raw == BuildMat(log) IN
         /\ Len(mat) = Len(raw)
         /\ \A i \in 1..Len(raw) :
              /\ Len(mat[i]) = Len(raw[i])
              /\ \A j \in 1..Len(raw[i]) : Len(raw[i][j]) > 1 => mat[i][j] = raw[i][j]

\* a cell that ends with an escape sequence right before a separator, above
\* a rule row the smoother turns the bars of into junctions
C15_Witness ==
    /\ pc = "done"
    /\ Len(rows) = 3 /\ ncols = 2 /\ vert[1] /\ sep = 0
    /\ rows[1] = <<TailEscCell, EscCell>>
    /\ rows[3] = <<EscCell, TailEscCell>>
    /\ just = <<"r", "l">>

\* in SpecEsc only a table with a row that begins with a continuation cell
\* ends in a panic
C15_PanicsOnlyOnLeadingExt == pc = "panic" => ~NoLeadingExt

\* ------------------------------------------------------------------------
\* The borders (SpecBody).

\* the top border as rendered and the bottom border as written out, seen
\* when the smoother has run and log still holds the rendered text
RawTop == TextLines(log)[1]
FinalBottom == Concat(mat[Len(mat)])

UpteeOf(t) == IF t = "tee" THEN "uptee" ELSE "UPTEE"

\* the bottom border at the boundary after column c, against the top
MirrorsAt(c) ==
    LET p == BoundaryPos(c) IN
    /\ RawTop[p] \in {"tee", "TEE"}
    /\ IF rows[Len(rows)][c + 1] = EXT
       THEN FinalBottom[p] \in {"dash", "DASH"}
       ELSE FinalBottom[p] = UpteeOf(RawTop[p])

BottomMirrorsTop ==
    /\ Len(FinalBottom) = Len(RawTop)
    /\ \A p \in 1..Len(RawTop) :
         RawTop[p] \in {"dash", "DASH"} => FinalBottom[p] = RawTop[p]
    /\ \A c \in 1..(ncols - 1) : vert[c] => MirrorsAt(c)

\* C16 as stated: the bottom border has the length of the top border, the
\* dashes of the top border, and at every separator boundary the up-tee of
\* the weight of the top border's tee, or a dash where a span of the last
\* row crosses the boundary.
C16_BottomMirrorsTop == pc = "output" => BottomMirrorsTop

\* the options and markers under which the two borders are drawn alike
SameWeights ==
    IF opt.bold_box THEN TRUE
    ELSE IF opt.bold_outer THEN \A c \in 1..ncols : vert[c] => vert_bold[c]
    ELSE sep = 0 \/ \A c \in 1..ncols : ~vert_bold[c]

\* Where C16 does hold.
C16_BottomMirrorsTopSameWeights == (pc = "output" /\ SameWeights) => BottomMirrorsTop

\* a '|' and a '!' boundary, the last row spanning the first of them
C16_Witness ==
    /\ pc = "output" /\ SameWeights /\ ~opt.bold_box /\ ~opt.bold_outer
    /\ ncols = 3 /\ vert = <<TRUE, TRUE, FALSE>> /\ vert_bold = <<FALSE, TRUE, FALSE>>
    /\ rows[Len(rows)] = <<Lit(MaxWidth), EXT, Lit(MaxWidth)>>
    /\ BottomMirrorsTop

\* ------------------------------------------------------------------------
\* Tables of one column (SpecOne).

InnerGlyphs ==
    {"verty", "VERTY", "tee", "TEE", "uptee", "UPTEE",
     "cross", "CROSS", "cross_bold1", "cross_bold2"}

NewLines(t) == Cardinality({p \in 1..Len(t) : t[p] = NL})

\* C17: a table of one column and n >= 1 rows, whose cells hold no box
\* glyphs of their own, comes out as n + 2 lines, each ended by a newline,
\* and no line has a bar, tee, up-tee or cross between its first and its
\* last character; line i + 1 is the line of row i.
C17_OneColumnBox ==
    (pc = "done" /\ ncols = 1 /\ ~vert[1] /\ Len(rows) >= 1) =>
        /\ Len(TextLines(log)) = Len(rows) + 2
        /\ NewLines(log) = Len(rows) + 2
        /\ log[Len(log)] = NL
        /\ \A n \in 1..Len(TextLines(log)) :
             LET line == TextLines(log)[n] IN
             \A p \in 2..(Len(line) - 1) : line[p] \notin InnerGlyphs
        /\ \A i \in 1..Len(rows) :
             LET line == TextLines(log)[i + 1]
                 cell == rows[i][1] IN
             /\ IsRule(cell) =>
                  \A p \in 2..(Len(line) - 1) : line[p] \in {"dash", "DASH"}
             /\ (IsLiteral(cell) /\ ~OpenEscape(cell)) => line = ExpectedLine(i)

\* three rows, a rule row between two rows of text
C17_Witness ==
    /\ pc = "done" /\ ncols = 1 /\ ~vert[1]
    /\ rows = <<<<Lit(MaxWidth)>>, <<HLINE>>, <<EscCell>>>>
    /\ Len(TextLines(log)) = 5

\* ------------------------------------------------------------------------
\* Two calls (SpecTwice).

SecondCallDone == pc = "done" /\ arg # <<>>

Edge(G, v, w) == \E k \in 1..Len(G.edges) : G.edges[k] = <<v, w>>

\* the vertices a directed path of at most k edges leads to from the set S
RECURSIVE Reached(_, _, _)
Reached(G, S, k) ==
    IF k = 0 THEN S
    ELSE Reached(G, S \cup {w \in 0..(G.n - 1) : \E v \in S : Edge(G, v, w)}, k - 1)

\* v lies on a directed cycle: a path of one or more edges from v to v
OnCycle(G, v) ==
    v \in Reached(G, {w \in 0..(G.n - 1) : Edge(G, v, w)}, G.n)

HasCycle(G) == \E v \in 0..(G.n - 1) : OnCycle(G, v)

\* C19: cyclic_core returns the empty list exactly for the digraphs without
\* a directed cycle, acyclic is true exactly for those, and no count is
\* decremented at 0 on the way.
C19_EmptyIffAcyclic ==
    /\ pc = "returned" => ((ret = <<>>) <=> ~HasCycle(arg))
    /\ pc = "returned_acyclic" => (ret <=> ~HasCycle(arg))
    /\ pc \in {"returned", "returned_acyclic"} => ~cyclic_core_counts(arg).wrapped

\* a self-loop and a pair of parallel edges besides an acyclic part
C19_Witness ==
    /\ pc = "returned"
    /\ arg = [n |-> 3, edges |-> <<<<0, 1>>, <<0, 1>>, <<2, 2>>>>]
    /\ ret = <<2>>

C19_WitnessAcyclic ==
    /\ pc = "returned_acyclic"
    /\ arg = [n |-> 3, edges |-> <<<<0, 1>>, <<0, 1>>, <<1, 2>>, <<0, 2>>>>]
    /\ ret

\* C20 as stated: the list cyclic_core returns is the vertices that lie on
\* a directed cycle, in increasing order.
C20_CoreIsCycleVertices ==
    pc = "returned" =>
        ret = Listed(arg.n, 0, {v \in 0..(arg.n - 1) : OnCycle(arg, v)})

\* What the list is: the vertices that a directed path (of no edge or
\* more) leads to from a vertex on a cycle and from which one leads to a
\* vertex on a cycle, in increasing order.
BetweenCycles(G, v) ==
    /\ \E w \in Reached(G, {v}, G.n) : OnCycle(G, w)
    /\ \E w \in 0..(G.n - 1) : OnCycle(G, w) /\ v \in Reached(G, {w}, G.n)

C20_CoreIsBetweenCycles ==
    pc = "returned" =>
        ret = Listed(arg.n, 0, {v \in 0..(arg.n - 1) : BetweenCycles(arg, v)})

\* vertex 1 is on the path from the cycle at 0 to the cycle at 2, on no
\* cycle, and returned
C20_Witness ==
    /\ pc = "returned"
    /\ arg = [n |-> 3, edges |-> <<<<0, 0>>, <<0, 1>>, <<1, 2>>, <<2, 2>>>>]
    /\ ~OnCycle(arg, 1)
    /\ ret = <<0, 1, 2>>

\* ------------------------------------------------------------------------
\* The solver without a deficit (SpecSolve).

\* every constraint requires 0: the total deficit is 0 before the loop
NothingRequired == SumSeq(rhs) = 0

\* C21 as stated: when the total deficit is 0 before the loop, the solver
\* increments no column and every solved width is 0.
C21_NoIncrementWithoutDeficit ==
    (pc = "pad" /\ NothingRequired) => \A c \in 1..ncols : xw[c] = 0

\* What the loop does then: it runs once and increments column 0.
C21_OneIncrementWithoutDeficit ==
    (pc = "pad" /\ NothingRequired) =>
        xw = [c \in 1..ncols |-> IF c = 1 THEN 1 ELSE 0]

\* a table of empty cells has been solved: column 0 has width 1
C21_Witness ==
    /\ pc = "pad"
    /\ NothingRequired
    /\ Len(rows) >= 1 /\ ncols >= 2
    /\ \A i \in 1..Len(rows) : \A j \in 1..ncols : rows[i][j] = <<>>
    /\ xw[1] = 1

\* ------------------------------------------------------------------------
\* The column the solver picks (SpecJust).

\* the total deficit of the constraints under the widths w
DeficitUnder(w) ==
    SumSeq([j \in 1..Len(rhs) |->
              LET l == SumSeq([c \in 1..ncols |-> IF lhs[j][c] THEN w[c] ELSE 0]) IN
              IF l < rhs[j] THEN rhs[j] - l ELSE 0])

\* by how much a unit increment of column c reduces the total deficit
Reduction(c) == DeficitUnder(xw) - DeficitUnder([xw EXCEPT ![c] = @ + 1])

\* the lowest column among those of the largest reduction
Greedy ==
    CHOOSE c \in 1..ncols :
        /\ \A d \in 1..ncols : Reduction(d) <= Reduction(c)
        /\ \A d \in 1..(c - 1) : Reduction(d) < Reduction(c)

\* C22: every iteration of the solver loop that starts with a positive total
\* deficit increments the lowest column among those whose increment reduces
\* the total deficit most, and the deficit the loop keeps is the total
\* deficit; for [["wide", \ext], ["x", "y"]], sep 0, "l|l" the widths come
\* out as 2 and 1.
C22_GreedyLowestColumn ==
    [][(pc = "solver_loop" /\ ncols >= 1 /\ DeficitUnder(xw) > 0) =>
          /\ deficit = DeficitUnder(xw)
          /\ xw' = [xw EXCEPT ![Greedy] = @ + 1]
          /\ (/\ rows = <<<<Lit(4), EXT>>, <<Lit(1), Lit(1)>>>>
              /\ sep = 0 /\ justify = <<"l", "|", "l">>
              /\ pc' = "pad") => xw' = <<2, 1>>]_vars

\* the table of the example has been solved, through a tie (first
\* iteration) and an iteration where column 1 alone is best (second)
C22_Witness ==
    /\ pc = "pad"
    /\ rows = <<<<Lit(4), EXT>>, <<Lit(1), Lit(1)>>>>
    /\ sep = 0 /\ justify = <<"l", "|", "l">>
    /\ xw = <<2, 1>>

\* ------------------------------------------------------------------------
\* The width of the lines with spans and rule rows (SpecSolve).

LineWidths == [n \in 1..Len(TextLines(log)) |-> visible_width(TextLines(log)[n])]

\* C23 as stated: whatever the table, all lines of the output have the same
\* visible width.
C23_AllLinesSameWidth ==
    pc = "done" => \A n \in 1..Len(LineWidths) : LineWidths[n] = LineWidths[1]

\* every column sets its width by a cell of its own: a literal cell that is
\* not continued has the solved width
ColumnsSetByOwnCells == \A c \in 1..ncols : maxcol[c] = xw[c]

\* Where the lines do agree: no row begins with a continuation cell and
\* every column's width is set by a cell of its own.
C23_SameWidthOwnCells ==
    (pc = "done" /\ NoLeadingExt /\ ColumnsSetByOwnCells) =>
        \A n \in 1..Len(LineWidths) : LineWidths[n] = LineWidths[1]

\* a span over a column that has no cell of its own: the body line is wider
\* than the borders
C23_Witness ==
    /\ pc = "done"
    /\ rows = <<<<Lit(MaxWidth), EXT>>>>
    /\ sep = 0 /\ ~vert[1]
    /\ LineWidths[2] # LineWidths[1]

\* ------------------------------------------------------------------------
\* Vertical consistency of the junctions (SpecSolve).

\* the glyphs with an arm downwards and those with an arm upwards
DownArm ==
    {tee, tee_bold, cross, cross_bold_bold, cross_bold1, cross_bold2,
     verty, verty_bold, lefty, lefty_bold_bold, lefty_bold1,
     righty, righty_bold_bold, righty_bold1,
     topleft, topleft_bold, topright, topright_bold}
UpArm ==
    {uptee, uptee_bold, cross, cross_bold_bold, cross_bold1, cross_bold2,
     verty, verty_bold, lefty, lefty_bold_bold, lefty_bold1,
     righty, righty_bold_bold, righty_bold1,
     botleft, botleft_bold, botright, botright_bold}

\* the glyph at position p of line n of the output, "" outside of it
GlyphAt(n, p) ==
    LET L == TextLines(log) IN
    IF n >= 1 /\ n <= Len(L) /\ p >= 1 /\ p <= Len(L[n]) THEN L[n][p] ELSE ""

\* C24 as stated: in the output a glyph with an arm downwards has a glyph
\* with an arm upwards directly below it, and a glyph with an arm upwards
\* has a glyph with an arm downwards directly above it.
C24_JunctionsVerticallyConsistent ==
    pc = "done" =>
        \A n \in 1..Len(TextLines(log)) : \A p \in 1..Len(TextLines(log)[n]) :
            /\ GlyphAt(n, p) \in DownArm => GlyphAt(n + 1, p) \in UpArm
            /\ GlyphAt(n, p) \in UpArm => GlyphAt(n - 1, p) \in DownArm

\* a rule row as the last row: the bar of the rule row has become an up-tee
\* and the up-tee of the bottom border stands below it
C24_Witness ==
    /\ pc = "done"
    /\ rows = <<<<Lit(MaxWidth), Lit(MaxWidth)>>, <<HLINE, HLINE>>>>
    /\ sep = 0 /\ justify = <<"l", "|", "l">>
    /\ GlyphAt(3, 2 + MaxWidth) = uptee
    /\ GlyphAt(4, 2 + MaxWidth) = uptee

\* ------------------------------------------------------------------------
\* The tees of the top border and the order of the smoothing pass
\* (SpecSolve; at "output" log still holds the rendered text, mat the
\* smoothed grid).

Rendered == BuildMat(log)

\* the grid the pass sees at position (i, j) of the rendered grid R:
\* rewritten before it in row-major order, as rendered from it on
SeenAt(R, i, j) ==
    [a \in 1..Len(R) |->
       [b \in 1..Len(R[a]) |->
          IF a < i \/ (a = i /\ b < j) THEN mat[a][b] ELSE R[a][b]]]

\* the first row is a body row whose bars stand below the tees
FirstRowAligned ==
    /\ Len(rows) >= 1
    /\ \A c \in 1..ncols : ~IsRule(rows[1][c])
    /\ rows[1][1] # EXT
    /\ ColumnsSetByOwnCells

\* C25: a tee of the top border becomes a dash exactly when what stands
\* directly below it in the rendered first row is no vertical bar, and is
\* kept otherwise; where the first row is a body row aligned with the
\* border that is exactly where a span of the first row crosses the
\* boundary; and every position of the grid is what the rules give on the
\* grid rewritten before that position and as rendered from it on.
C25_TopTeeDemotion ==
    pc = "output" =>
        LET R == Rendered IN
        /\ \A p \in 1..Len(R[1]) :
             IsTee(R[1][p]) =>
               mat[1][p] = IF p <= Len(R[2]) /\ EndsVerty(R[2][p])
                           THEN R[1][p]
                           ELSE <<IF opt.bold_outer THEN dash_bold ELSE dash>>
        /\ FirstRowAligned =>
             \A c \in 1..(ncols - 1) :
               vert[c] => /\ IsTee(R[1][BoundaryPos(c)])
                          /\ IsDash(mat[1][BoundaryPos(c)]) <=> rows[1][c + 1] = EXT
        /\ \A i \in 1..Len(mat) : \A j \in 1..Len(mat[i]) :
             LET r == SmoothCell(SeenAt(R, i, j), i, j) IN
             r.ok /\ mat[i][j] = r.m[i][j]

\* the first row spans the first boundary and not the second: one tee has
\* become a dash, the other is kept
C25_Witness ==
    /\ pc = "output"
    /\ FirstRowAligned
    /\ ncols = 3 /\ vert = <<TRUE, TRUE, FALSE>>
    /\ rows[1] = <<Lit(MaxWidth), EXT, Lit(MaxWidth)>>
    /\ IsDash(mat[1][BoundaryPos(1)])
    /\ IsTee(mat[1][BoundaryPos(2)])

\* a position where the order matters: the rules give something else on the
\* grid as rendered
C25_WitnessOrder ==
    /\ pc = "output"
    /\ \E i \in 1..Len(mat) : \E j \in 1..Len(mat[i]) :
         LET r == SmoothCell(Rendered, i, j) IN r.ok /\ mat[i][j] # r.m[i][j]

\* ------------------------------------------------------------------------
\* Bars beside the dashes of a rule cell (SpecMixed).

\* the glyph a super-character shows
Glyph(c) == c[Len(c)]

Lefties == {lefty, lefty_bold_bold, lefty_bold1}
Righties == {righty, righty_bold_bold, righty_bold1}

\* a dash stands at position j of line i of the grid R
DashAt(R, i, j) == j >= 1 /\ j <= Len(R[i]) /\ Glyph(R[i][j]) \in {dash, dash_bold}

\* the super-characters at j - 1, j and j + 1 of line i carry no escape
\* sequence
BareAround(R, i, j) ==
    \A k \in {j - 1, j, j + 1} : (k >= 1 /\ k <= Len(R[i])) => Len(R[i][k]) = 1

\* every bar of the body rows of R (with bare: every bar that has no escape
\* sequence on it or beside it) is rewritten as stated
BarsBesideDashes(R, bare) ==
    \A i \in 2..(Len(R) - 1) : \A j \in 1..Len(R[i]) :
        (Glyph(R[i][j]) \in {verty, verty_bold} /\ (bare => BareAround(R, i, j))) =>
            /\ (DashAt(R, i, j + 1) /\ ~DashAt(R, i, j - 1)) => Glyph(mat[i][j]) \in Lefties
            /\ (DashAt(R, i, j - 1) /\ ~DashAt(R, i, j + 1)) => Glyph(mat[i][j]) \in Righties
            /\ (~DashAt(R, i, j - 1) /\ ~DashAt(R, i, j + 1)) => mat[i][j] = R[i][j]

\* C26 as stated: in the rows between the borders a bar with a dash
\* directly to its right and none directly to its left becomes a left-tee,
\* a bar with a dash directly to its left and none directly to its right
\* becomes a right-tee, and a bar with no dash beside it is left as it is.
C26_BarsBesideDashes ==
    pc = "output" => BarsBesideDashes(Rendered, FALSE)

\* What holds: the same for the bars that have no escape sequence of a cell
\* on them or on the glyphs beside them.
C26_BareBarsBesideDashes ==
    pc = "output" => BarsBesideDashes(Rendered, TRUE)

\* a cell that ends with an escape sequence, its bar, and a rule cell: the
\* bar has the dash on its right only and is still a bar
C26_Witness ==
    /\ pc = "output"
    /\ rows = <<<<Lit(1), Lit(1)>>, <<TailEscCell, HLINE>>>>
    /\ sep = 0 /\ justify = <<"l", "|", "l">>
    /\ Rendered[3][3] = <<ESC, "[", "m", verty>>
    /\ DashAt(Rendered, 3, 4) /\ ~DashAt(Rendered, 3, 2)
    /\ mat[3][3] = Rendered[3][3]

\* a bare bar between a literal cell and a rule cell has become a left-tee
C26_WitnessLefty ==
    /\ pc = "output"
    /\ rows = <<<<Lit(1), Lit(1)>>, <<Lit(1), HLINE>>>>
    /\ sep = 0 /\ justify = <<"l", "|", "l">>
    /\ mat[3][3] = <<lefty>> /\ mat[3][5] = <<righty>>

\* ------------------------------------------------------------------------
\* The weight of the tees and up-tees of a rule row (SpecRule).

\* every bar of R that the pass has rewritten to a tee or an up-tee has the
\* weight that wanted(i, j) gives: TRUE for bold
TeeWeights(R, wanted(_, _)) ==
    \A i \in 2..(Len(R) - 1) : \A j \in 1..Len(R[i]) :
        IsVerty(R[i][j]) =>
            /\ IsTee(mat[i][j]) => (mat[i][j] = <<tee_bold>> <=> wanted(i + 1, j))
            /\ mat[i][j] \in {<<uptee>>, <<uptee_bold>>} =>
                 (mat[i][j] = <<uptee_bold>> <=> wanted(i - 1, j))

BoldBarAt(i, j) == Glyph(mat[i][j]) = verty_bold
BoldOuter(i, j) == opt.bold_outer \/ opt.bold_box

\* C27 as stated: a bar rewritten to a tee has the weight of the bar
\* directly below it, a bar rewritten to an up-tee the weight of the bar
\* directly above it.
C27_TeeWeightOfBar ==
    pc = "output" => TeeWeights(Rendered, BoldBarAt)

\* What holds: both have the weight of the outer border (bold with
\* bold_outer or bold_box).
C27_TeeWeightOfOuter ==
    pc = "output" => TeeWeights(Rendered, BoldOuter)

\* a '!' boundary under a spanning row, default options: the tee of the
\* rule row is plain, the bar below it bold
C27_Witness ==
    /\ pc = "output"
    /\ ~opt.bold_outer /\ ~opt.bold_box
    /\ ncols = 2 /\ vert_bold[1] /\ sep = 0
    /\ rows[1] = <<Lit(MaxWidth), EXT>>
    /\ rows[3] = <<Lit(MaxWidth), Lit(MaxWidth)>>
    /\ mat[3][2 + MaxWidth] = <<tee>>
    /\ mat[4][2 + MaxWidth] = <<verty_bold>>

\* ------------------------------------------------------------------------
\* The super-characters (SpecPackage).

Packaged == pc \in {"returned", "returned_bytes"}

\* p is zero or more complete escape sequences (ESC up to the next 'm')
\* followed by one character that is neither in one of them nor an ESC
RECURSIVE SuperFrom(_, _, _)
SuperFrom(p, k, escaped) ==
    IF k = Len(p) THEN ~escaped /\ p[k] # ESC
    ELSE IF escaped THEN SuperFrom(p, k + 1, p[k] # "m")
    ELSE p[k] = ESC /\ SuperFrom(p, k + 1, TRUE)

SuperCharacter(p) == Len(p) >= 1 /\ SuperFrom(p, 1, FALSE)

\* C28 as stated: every package returned is a super-character and the
\* packages concatenated are the input.
C28_PackagesRebuildInput ==
    Packaged =>
        /\ \A k \in 1..Len(ret) : SuperCharacter(ret[k])
        /\ Concat(ret) = arg

\* the input up to its last character that is outside the escape sequences
RECURSIVE UpToLastOutside(_, _)
UpToLastOutside(s, n) ==
    IF n = 0 THEN <<>>
    ELSE IF s[n] # ESC /\ ~InEscape(s, n) THEN SubSeq(s, 1, n)
    ELSE UpToLastOutside(s, n - 1)

\* What holds: every package returned is a super-character and the packages
\* concatenated are the input up to its last character outside the escape
\* sequences; what follows that character is in no package.
C28_PackagesRebuildUpToLast ==
    Packaged =>
        /\ \A k \in 1..Len(ret) : SuperCharacter(ret[k])
        /\ Concat(ret) = UpToLastOutside(arg, Len(arg))

\* an input that ends with an escape sequence: the sequence is in no package
C28_Witness ==
    /\ pc = "returned"
    /\ arg = <<"a", ESC, "[", "m">>
    /\ ret = <<<<"a">>>>

C28_WitnessBytes ==
    /\ pc = "returned_bytes"
    /\ arg = <<ESC, "m", "a", ESC>>
    /\ ret = <<<<ESC, "m", "a">>>>

\* ------------------------------------------------------------------------
\* A call on a buffer that is not empty (SpecLog).

\* the text of the table on an empty buffer: the lines rendered from the
\* padded rows, smoothed and written out
FreshText ==
    LET T == TopLine \o Concat([i \in 1..Len(rrr) |-> BodyLine(i)]) \o BottomLine
        r == SmoothFrom(BuildMat(T), 1) IN
    IF r.ok THEN MatText(r.m) ELSE <<"panic">>

\* C29 as stated: the buffer holds what it held on entry followed by the
\* text the call produces on an empty buffer.
C29_AppendsFreshText ==
    pc = "done" => log = log0 \o FreshText

\* the buffer held whole lines on entry: not empty, no empty line, the last
\* line ended, no box glyph
WholePlainLines(lg) ==
    /\ Len(lg) >= 1
    /\ lg[Len(lg)] = NL
    /\ lg[1] # NL
    /\ \A p \in 1..(Len(lg) - 1) : ~(lg[p] = NL /\ lg[p + 1] = NL)
    /\ \A p \in 1..Len(lg) : lg[p] \in {"x", "y", NL}

\* What holds: after whole lines of plain text the buffer is those lines
\* followed by the text of the table.
C29_AppendsAfterWholeLines ==
    (pc = "done" /\ WholePlainLines(log0)) => log = log0 \o FreshText

\* the buffer held an empty line on entry: the line is gone
C29_Witness ==
    /\ pc = "done"
    /\ log0 = <<NL>>
    /\ rows = <<<<Lit(1)>>>> /\ sep = 0
    /\ log = FreshText

\* a line and the table after it
C29_WitnessWholeLine ==
    /\ pc = "done"
    /\ log0 = <<"x", NL>>
    /\ Len(rows) = 2 /\ ncols = 2 /\ vert[1]
    /\ log = log0 \o FreshText

\* ------------------------------------------------------------------------
\* Rendering to completion (SpecSolve).

\* the shape invariants: rows of equal length, one letter per column, the
\* markers between two columns
ShapeLegal ==
    /\ ~Ragged
    /\ ColumnLetters(justify) = TableCols
    /\ ~IllegalMarker(justify, TableCols)

\* C30 as stated: a call with a table of legal shape never stops with a
\* fatal error or a panic.
C30_RendersToCompletion == ShapeLegal => ~Stopped

\* What holds: it never stops when the table has a column, no row begins
\* with a continuation cell and every column has a literal cell that is not
\* continued.
C30_CompletesWithOwnCells ==
    (ShapeLegal /\ TableCols >= 1 /\ NoLeadingExt /\ EveryColumnHasLiteral) => ~Stopped

\* a table with zero rows has stopped in the solver
C30_Witness ==
    /\ ShapeLegal
    /\ rows = <<>> /\ justify = <<>>
    /\ pc = "panic" /\ err.kind = "index"
    /\ xw = <<>>

\* a table whose rows have zero columns has stopped in the solver
C30_WitnessNoColumns ==
    /\ ShapeLegal
    /\ rows = <<<<>>, <<>>>> /\ justify = <<>>
    /\ pc = "panic" /\ err.kind = "index"
    /\ xw = <<>>

====
